---- MODULE Spec2Model ----
(***************************************************************************)
(* Keyword grouping utilities (src/unnamed/part_002): the multi-signal     *)
(* string similarity, the intent classifier, the single-linkage cluster    *)
(* builder and the groupKeywords pipeline.                                 *)
(*                                                                         *)
(* Strings are sequences of one-character strings.  JavaScript numbers     *)
(* that the code computes by division are exact rationals <<num, den>> in  *)
(* lowest terms with den > 0; NaN is the pair <<0, 0>>.                    *)
(***************************************************************************)
EXTENDS Integers, Sequences, FiniteSets, TLC

VARIABLES
    \* ---- one call of calculateAlgorithmicSimilarity ----
    keyword1,         \* first argument
    keyword2,         \* second argument
    score,            \* the returned number, NoValue before the call returns
    simPc,            \* "call" | "returned" | "idle"
    \* ---- one call of groupKeywords ----
    keywordData,      \* the input records, in the caller's order
    options,          \* similarityThreshold, minGroupSize, maxGroups, groupByIntent
    pc,               \* "entry" | "loop" | "scan" | "scanned" | "collect" | "done" | "threw" | "idle"
    keywordsByIntent, \* Object.entries(keywordsByIntent): <<[intent, keywords]>>
    bucketIdx,        \* position of the for-of loop in keywordsByIntent
    similarities,     \* the similarity matrix of the current bucket
    clusters,         \* the clusters of the current bucket
    maxSimilarity,    \* the best similarity found by the scan of the current round
    mergeIndices,     \* the pair of clusters that has it, <<-1, -1>> for none
    finalGroups,      \* the groups created so far
    ungrouped,        \* the records left out of every group so far
    result,           \* the returned object, NoValue before the call returns
    \* ---- one call of classifyIntent ----
    intentKeyword,    \* the argument
    intentResult,     \* the returned intent, "" before the call returns
    intentPc,         \* "call" | "returned" | "idle"
    \* ---- one call of extractGroupTopic ----
    topicKeywords,    \* the argument: the queries of a cluster
    topicResult,      \* the returned string, NoValue before the call returns
    topicPc,          \* "call" | "returned" | "idle"
    \* ---- one call of calculateGroupMetrics ----
    metricKeywords,   \* the argument: the records of a cluster
    metricResult,     \* the returned object, NoValue before the call returns
    metricPc,         \* "call" | "returned" | "idle"
    \* ---- the state of the grouping UI ----
    currentGroupingResult, \* the result of the last grouping applied, null for none
    groupingEnabled,       \* the flag of the grouped view
    currentGroupFilters    \* intent, minClicks, minSize, searchTerm

simVars == <<keyword1, keyword2, score, simPc>>

groupVars == <<keywordData, options, pc, keywordsByIntent, bucketIdx,
               similarities, clusters, maxSimilarity, mergeIndices, finalGroups,
               ungrouped, result>>

intentVars == <<intentKeyword, intentResult, intentPc>>

topicVars == <<topicKeywords, topicResult, topicPc>>

metricVars == <<metricKeywords, metricResult, metricPc>>

uiVars == <<currentGroupingResult, groupingEnabled, currentGroupFilters>>

\* the variables of the calls of the three functions above
unitVars == <<intentKeyword, intentResult, intentPc, topicKeywords, topicResult,
              topicPc, metricKeywords, metricResult, metricPc>>

vars == <<keyword1, keyword2, score, simPc, keywordData, options, pc,
          keywordsByIntent, bucketIdx, similarities, clusters, maxSimilarity,
          mergeIndices, finalGroups, ungrouped, result, intentKeyword,
          intentResult, intentPc, topicKeywords, topicResult, topicPc,
          metricKeywords, metricResult, metricPc, currentGroupingResult,
          groupingEnabled, currentGroupFilters>>

NoValue == <<>>

\* ------------------------------------------------------------------------
\* Bounds of the model
\* ------------------------------------------------------------------------
\* longest string handed to calculateAlgorithmicSimilarity
MaxLen == 5
\* most records handed to groupKeywords
MaxRecords == 3
\* most words of a keyword handed to classifyIntent
MaxWords == 3
\* most records handed to calculateGroupMetrics
MaxMetricRecords == 2
\* longest of the short queries handed to extractGroupTopic
MaxTopicLen == 4

\* ------------------------------------------------------------------------
\* Numbers
\* ------------------------------------------------------------------------
Max(a, b) == IF a >= b THEN a ELSE b
Min(a, b) == IF a <= b THEN a ELSE b

RECURSIVE Gcd(_, _)
Gcd(a, b) == IF b = 0 THEN a ELSE Gcd(b, a % b)

NaN == <<0, 0>>
IsNaN(x) == x[2] = 0

\* n/d in lowest terms, d > 0 (0/0 is NaN, as in JavaScript)
Rat(n, d) ==
    IF d = 0 THEN NaN
    ELSE LET g == Gcd(IF n < 0 THEN -n ELSE n, d)
         IN  <<n \div g, d \div g>>

RatAdd(x, y) ==
    IF IsNaN(x) \/ IsNaN(y) THEN NaN
    ELSE Rat(x[1] * y[2] + y[1] * x[2], x[2] * y[2])

RatMul(x, y) ==
    IF IsNaN(x) \/ IsNaN(y) THEN NaN
    ELSE Rat(x[1] * y[1], x[2] * y[2])

\* a/b < c/d for a, c >= 0 and b, d > 0, by continued fractions (no products,
\* so no overflow)
RECURSIVE FracLess(_, _, _, _)
FracLess(a, b, c, d) ==
    LET qa == a \div b
        qc == c \div d
        ra == a % b
        rc == c % d
    IN  IF qa # qc THEN qa < qc
        ELSE IF rc = 0 THEN FALSE
        ELSE IF ra = 0 THEN TRUE
        ELSE FracLess(d, rc, b, ra)

\* x < y on numbers; every comparison with NaN is false.  Negative values
\* only occur as the integers -1/1 and below (thresholds, the -1 sentinel).
RatLess(x, y) ==
    IF IsNaN(x) \/ IsNaN(y) THEN FALSE
    ELSE IF x[1] < 0 /\ y[1] < 0 THEN FracLess(-y[1], y[2], -x[1], x[2])
    ELSE IF x[1] < 0 THEN TRUE
    ELSE IF y[1] < 0 THEN FALSE
    ELSE FracLess(x[1], x[2], y[1], y[2])

\* Math.min / Math.max: NaN if either argument is NaN
MathMin(x, y) ==
    IF IsNaN(x) \/ IsNaN(y) THEN NaN ELSE IF RatLess(y, x) THEN y ELSE x
MathMax(x, y) ==
    IF IsNaN(x) \/ IsNaN(y) THEN NaN ELSE IF RatLess(x, y) THEN y ELSE x

\* the sequences over S of length at most n
RECURSIVE SeqsUpTo(_, _)
SeqsUpTo(S, n) ==
    IF n = 0 THEN {<<>>}
    ELSE LET shorter == SeqsUpTo(S, n - 1)
         IN  shorter \cup {Append(q, x) : q \in shorter, x \in S}

\* the concatenation of a sequence of sequences (Array.prototype.flatMap)
RECURSIVE Flatten(_)
Flatten(seqs) == IF seqs = <<>> THEN <<>> ELSE Head(seqs) \o Flatten(Tail(seqs))

\* the sum of a sequence of numbers (the reduce calls)
RECURSIVE SumSeq(_)
SumSeq(ns) == IF ns = <<>> THEN 0 ELSE Head(ns) + SumSeq(Tail(ns))

\* ------------------------------------------------------------------------
\* Strings
\* ------------------------------------------------------------------------
\* the upper-case letters of the model's strings
UpperToLower == ("A" :> "a") @@ ("B" :> "b") @@ ("H" :> "h")

toLowerCaseChar(c) == IF c \in DOMAIN UpperToLower THEN UpperToLower[c] ELSE c

\* String.prototype.toLowerCase
toLowerCase(s) == [i \in 1..Len(s) |-> toLowerCaseChar(s[i])]

\* \s of the regular expressions
IsSpace(c) == c \in {" "}

\* the class [\s\-_,;:.!?()[\]{}'"] of getWordTokens
IsSeparator(c) ==
    IsSpace(c) \/ c \in {"-", "_", ",", ";", ":", ".", "!", "?", "(", ")",
                         "[", "]", "{", "}", "'", "\""}

\* s.substring(from, to) with 0-based from (inclusive) and to (exclusive)
substring(s, from, to) == SubSeq(s, from + 1, to)

\* str.replace(/\s+/g, ' '): every run of whitespace becomes one space
RECURSIVE CollapseFrom(_, _)
CollapseFrom(s, i) ==
    IF i > Len(s) THEN <<>>
    ELSE IF IsSpace(s[i])
         THEN IF i > 1 /\ IsSpace(s[i - 1])
              THEN CollapseFrom(s, i + 1)
              ELSE <<" ">> \o CollapseFrom(s, i + 1)
         ELSE <<s[i]>> \o CollapseFrom(s, i + 1)

collapseWhitespace(s) == CollapseFrom(s, 1)

\* String.prototype.trim
trim(s) ==
    LET nonSpace == {i \in 1..Len(s) : ~IsSpace(s[i])}
    IN  IF nonSpace = {} THEN <<>>
        ELSE SubSeq(s, CHOOSE i \in nonSpace : \A j \in nonSpace : i <= j,
                       CHOOSE i \in nonSpace : \A j \in nonSpace : i >= j)

startsWith(s, p) == Len(p) <= Len(s) /\ SubSeq(s, 1, Len(p)) = p
endsWith(s, p) == Len(p) <= Len(s) /\ SubSeq(s, Len(s) - Len(p) + 1, Len(s)) = p
includes(s, p) ==
    \E i \in 0..(Len(s) - Len(p)) : SubSeq(s, i + 1, i + Len(p)) = p

\* ------------------------------------------------------------------------
\* Similarity signals
\* ------------------------------------------------------------------------
\* getNGrams(str, n): the set of n-character windows of "#" + clean + "#"
getNGrams(str, n) ==
    LET cleanStr  == trim(collapseWhitespace(toLowerCase(str)))
        paddedStr == <<"#">> \o cleanStr \o <<"#">>
    IN  {SubSeq(paddedStr, i + 1, i + n) : i \in 0..(Len(paddedStr) - n)}

\* getWordTokens(keyword): the maximal runs of non-separator characters of
\* the lowercased keyword, in order
RECURSIVE TokensFrom(_, _, _)
TokensFrom(s, i, cur) ==
    IF i > Len(s) THEN (IF cur = <<>> THEN <<>> ELSE <<cur>>)
    ELSE IF IsSeparator(s[i])
         THEN (IF cur = <<>> THEN <<>> ELSE <<cur>>) \o TokensFrom(s, i + 1, <<>>)
         ELSE TokensFrom(s, i + 1, Append(cur, s[i]))

getWordTokens(keyword) == TokensFrom(toLowerCase(keyword), 1, <<>>)

SeqToSet(s) == {s[i] : i \in 1..Len(s)}

\* jaccardSimilarity over two collections given as sets: |A n B| / |A u B|
jaccardSimilarity(set1, set2) ==
    IF Cardinality(set1 \cup set2) = 0 THEN NaN
    ELSE Rat(Cardinality(set1 \cap set2), Cardinality(set1 \cup set2))

\* levenshteinDistance: the dp table row by row
RECURSIVE LevRow(_, _, _, _, _)
\* prev: row i-1 (index j+1 holds dp[i-1][j]); cur: the part of row i built so far
LevRow(str1, str2, i, prev, cur) ==
    LET j == Len(cur)
    IN  IF j > Len(str2) THEN cur
        ELSE LET cell == IF str1[i] = str2[j]
                         THEN prev[j]
                         ELSE Min(Min(prev[j + 1] + 1, cur[j] + 1), prev[j] + 1)
             IN  LevRow(str1, str2, i, prev, Append(cur, cell))

RECURSIVE LevRows(_, _, _, _)
LevRows(str1, str2, i, prev) ==
    IF i > Len(str1) THEN prev
    ELSE LevRows(str1, str2, i + 1, LevRow(str1, str2, i, prev, <<i>>))

levenshteinDistance(str1, str2) ==
    LevRows(str1, str2, 1, [j \in 1..(Len(str2) + 1) |-> j - 1])[Len(str2) + 1]

\* editDistanceSimilarity
editDistanceSimilarity(str1, str2) ==
    LET distance  == levenshteinDistance(toLowerCase(str1), toLowerCase(str2))
        maxLength == Max(Len(str1), Len(str2))
    IN  IF maxLength = 0 THEN <<1, 1>> ELSE Rat(maxLength - distance, maxLength)

\* dp[i][j] of findLongestCommonSubstring: length of the common run ending at
\* str1[i-1], str2[j-1]
RECURSIVE CommonRun(_, _, _, _)
CommonRun(str1, str2, i, j) ==
    IF i = 0 \/ j = 0 THEN 0
    ELSE IF str1[i] = str2[j] THEN CommonRun(str1, str2, i - 1, j - 1) + 1
    ELSE 0

\* the largest element of a non-empty set of integers
SetMax(S) == CHOOSE r \in S : \A q \in S : r >= q
SetMin(S) == CHOOSE r \in S : \A q \in S : r <= q

\* maxLength of findLongestCommonSubstring: the largest dp cell
LcsMaxLength(str1, str2) ==
    IF Len(str1) = 0 \/ Len(str2) = 0 THEN 0
    ELSE SetMax({CommonRun(str1, str2, i, j) : i \in 1..Len(str1), j \in 1..Len(str2)})

\* endingPos of findLongestCommonSubstring: the first row i in which a cell
\* reaches maxLength (the update is on a strict increase only)
LcsEndingPos(str1, str2, maxLength) ==
    IF maxLength = 0 THEN 0
    ELSE SetMin({i \in 1..Len(str1) :
                    \E j \in 1..Len(str2) : CommonRun(str1, str2, i, j) = maxLength})

LcsResult(str1, maxLength, endingPos) ==
    substring(str1, endingPos - maxLength, endingPos)

\* findLongestCommonSubstring
findLongestCommonSubstring(str1, str2) ==
    LcsResult(str1, LcsMaxLength(str1, str2),
              LcsEndingPos(str1, str2, LcsMaxLength(str1, str2)))

\* the affix bonus in hundredths: 15 for a prefix match plus 10 for a suffix match
affixBonus100(k1Lower, k2Lower) ==
    (IF startsWith(k1Lower, k2Lower) \/ startsWith(k2Lower, k1Lower) THEN 15 ELSE 0)
    + (IF endsWith(k1Lower, k2Lower) \/ endsWith(k2Lower, k1Lower) THEN 10 ELSE 0)

\* a variant of substringBonus that divides by the length of the first string
substringBonusFirstLength(k1Lower, k2Lower) ==
    LET longestCommonSubstring == findLongestCommonSubstring(k1Lower, k2Lower)
    IN  IF Len(longestCommonSubstring) >= 4
        THEN RatMul(Rat(Len(longestCommonSubstring), Len(k1Lower)), <<2, 10>>)
        ELSE <<0, 1>>

\* the common-substring bonus: (lcs / max length) * 0.2 when lcs >= 4
substringBonus(k1Lower, k2Lower) ==
    LET longestCommonSubstring == findLongestCommonSubstring(k1Lower, k2Lower)
    IN  IF Len(longestCommonSubstring) >= 4
        THEN RatMul(Rat(Len(longestCommonSubstring),
                        Max(Len(k1Lower), Len(k2Lower))), <<2, 10>>)
        ELSE <<0, 1>>

\* a variant of exactMatch that compares the strings as they are
exactMatchCaseSensitive(kw1, kw2) == kw1 = kw2

\* line 161: keyword1.toLowerCase() === keyword2.toLowerCase()
exactMatch(kw1, kw2) == toLowerCase(kw1) = toLowerCase(kw2)

\* calculateAlgorithmicSimilarity
calculateAlgorithmicSimilarity(kw1, kw2) ==
    IF exactMatch(kw1, kw2) THEN <<1, 1>>
    ELSE
    LET ngramSimilarity   == jaccardSimilarity(getNGrams(kw1, 2), getNGrams(kw2, 2))
        trigramSimilarity == jaccardSimilarity(getNGrams(kw1, 3), getNGrams(kw2, 3))
        tokens1 == getWordTokens(kw1)
        tokens2 == getWordTokens(kw2)
        tokenSimilarity ==
            IF Len(tokens1) > 0 /\ Len(tokens2) > 0
            THEN jaccardSimilarity(SeqToSet(tokens1), SeqToSet(tokens2))
            ELSE <<0, 1>>
        editSimilarity == editDistanceSimilarity(kw1, kw2)
        k1Lower == toLowerCase(kw1)
        k2Lower == toLowerCase(kw2)
        affix   == Rat(affixBonus100(k1Lower, k2Lower), 100)
        substr  == substringBonus(k1Lower, k2Lower)
        weightedSimilarity ==
            RatAdd(RatAdd(RatAdd(RatAdd(RatAdd(
                RatMul(ngramSimilarity, <<25, 100>>),
                RatMul(trigramSimilarity, <<20, 100>>)),
                RatMul(tokenSimilarity, <<20, 100>>)),
                RatMul(editSimilarity, <<25, 100>>)),
                RatMul(affix, <<5, 100>>)),
                RatMul(substr, <<5, 100>>))
    IN  MathMin(weightedSimilarity, <<1, 1>>)

\* The queries of the records handed to groupKeywords:
\* "buy (ab", "(ab buy" (commercial) and "uy ab" (informational)
Queries ==
    {<<"b", "u", "y", " ", "(", "a", "b">>,
     <<"(", "a", "b", " ", "b", "u", "y">>,
     <<"u", "y", " ", "a", "b">>}

\* a function given by a rule, as a table: every entry is evaluated once, when
\* the table is built, and not at every use
Tabulate(f) == f @@ <<>>

\* the similarity of every pair of Queries
SimilarityOfQueries ==
    Tabulate([p \in Queries \X Queries |-> calculateAlgorithmicSimilarity(p[1], p[2])])

\* calculateSimilarity
calculateSimilarity(kw1, kw2) ==
    IF <<kw1, kw2>> \in DOMAIN SimilarityOfQueries
    THEN SimilarityOfQueries[<<kw1, kw2>>]
    ELSE calculateAlgorithmicSimilarity(kw1, kw2)

\* ------------------------------------------------------------------------
\* Intent classification
\* ------------------------------------------------------------------------
\* /^(how|what|why|when|where|who|which|comment|...)/i: the Latin-script alternatives
InformationalPrefixes ==
    {<<"h", "o", "w">>, <<"w", "h", "a", "t">>, <<"w", "h", "y">>,
     <<"w", "h", "e", "n">>, <<"w", "h", "e", "r", "e">>,
     <<"w", "h", "o">>, <<"w", "h", "i", "c", "h">>,
     <<"c", "o", "m", "m", "e", "n", "t">>}

\* /(guide|tutorial|tips|learn|understand|...)/i
InformationalWords ==
    {<<"g", "u", "i", "d", "e">>,
     <<"t", "u", "t", "o", "r", "i", "a", "l">>, <<"t", "i", "p", "s">>,
     <<"l", "e", "a", "r", "n">>,
     <<"u", "n", "d", "e", "r", "s", "t", "a", "n", "d">>}

\* /(buy|purchase|price|cost|cheap|best|review|vs|compare|...|comprar|precio|...)/i
CommercialWords ==
    {<<"b", "u", "y">>, <<"p", "u", "r", "c", "h", "a", "s", "e">>,
     <<"p", "r", "i", "c", "e">>, <<"c", "o", "s", "t">>,
     <<"c", "h", "e", "a", "p">>, <<"b", "e", "s", "t">>,
     <<"r", "e", "v", "i", "e", "w">>, <<"v", "s">>,
     <<"c", "o", "m", "p", "a", "r", "e">>,
     <<"c", "o", "m", "p", "r", "a", "r">>,
     <<"p", "r", "e", "c", "i", "o">>}

\* /(discount|deal|sale|offer|...|descuento|...)/i
CommercialDealWords ==
    {<<"d", "i", "s", "c", "o", "u", "n", "t">>, <<"d", "e", "a", "l">>,
     <<"s", "a", "l", "e">>, <<"o", "f", "f", "e", "r">>,
     <<"d", "e", "s", "c", "u", "e", "n", "t", "o">>}

\* /(login|signin|website|homepage|contact|about|...)/i
NavigationalWords ==
    {<<"l", "o", "g", "i", "n">>, <<"s", "i", "g", "n", "i", "n">>,
     <<"w", "e", "b", "s", "i", "t", "e">>,
     <<"h", "o", "m", "e", "p", "a", "g", "e">>,
     <<"c", "o", "n", "t", "a", "c", "t">>, <<"a", "b", "o", "u", "t">>}

\* /^(www\.|https?:\/\/)/
NavigationalPrefixes ==
    {<<"w", "w", "w", ".">>, <<"h", "t", "t", "p", ":", "/", "/">>,
     <<"h", "t", "t", "p", "s", ":", "/", "/">>}

\* /(\.com|\.org|\.net|\.edu)/i
NavigationalDomains ==
    {<<".", "c", "o", "m">>, <<".", "o", "r", "g">>,
     <<".", "n", "e", "t">>, <<".", "e", "d", "u">>}

\* /(download|install|signup|register|subscribe|order|...|descargar)/i
TransactionalWords ==
    {<<"d", "o", "w", "n", "l", "o", "a", "d">>,
     <<"i", "n", "s", "t", "a", "l", "l">>,
     <<"s", "i", "g", "n", "u", "p">>,
     <<"r", "e", "g", "i", "s", "t", "e", "r">>,
     <<"s", "u", "b", "s", "c", "r", "i", "b", "e">>,
     <<"o", "r", "d", "e", "r">>,
     <<"d", "e", "s", "c", "a", "r", "g", "a", "r">>}

\* /(free|trial|demo|...|gratis)/i
TransactionalFreeWords ==
    {<<"f", "r", "e", "e">>, <<"t", "r", "i", "a", "l">>,
     <<"d", "e", "m", "o">>, <<"g", "r", "a", "t", "i", "s">>}

Digits == {"0", "1", "2", "3", "4", "5", "6", "7", "8", "9"}

\* /[0-9]+[.,]?[0-9]*\s*(...|$|...)/: the "$" inside the group is the
\* end-of-input assertion; the currency signs are outside the model's alphabet
RECURSIVE PriceSpaces(_, _)
PriceSpaces(s, i) == i > Len(s) \/ (IsSpace(s[i]) /\ PriceSpaces(s, i + 1))

RECURSIVE PriceFraction(_, _)
PriceFraction(s, i) ==
    \/ PriceSpaces(s, i)
    \/ i <= Len(s) /\ s[i] \in Digits /\ PriceFraction(s, i + 1)

RECURSIVE PriceDigits(_, _)
PriceDigits(s, i) ==
    \/ PriceFraction(s, i)
    \/ i <= Len(s) /\ s[i] \in Digits /\ PriceDigits(s, i + 1)
    \/ i <= Len(s) /\ s[i] \in {".", ","} /\ PriceFraction(s, i + 1)

MatchesPrice(s) == \E p \in 1..Len(s) : s[p] \in Digits /\ PriceDigits(s, p + 1)

IncludesAny(s, words) == \E w \in words : includes(s, w)
StartsWithAny(s, words) == \E w \in words : startsWith(s, w)

\* INTENT_PATTERNS in declaration order; weights in hundredths
IntentOrder == <<"informational", "commercial", "navigational", "transactional">>

IntentWeight ==
    [informational |-> 80, commercial |-> 90, navigational |-> 70, transactional |-> 85]

\* some pattern of the category matches the lower-cased keyword
IntentMatches(intent, lowerKeyword) ==
    CASE intent = "informational" ->
           \/ StartsWithAny(lowerKeyword, InformationalPrefixes)
           \/ IncludesAny(lowerKeyword, InformationalWords)
           \/ endsWith(lowerKeyword, <<"?">>)
      [] intent = "commercial" ->
           \/ IncludesAny(lowerKeyword, CommercialWords)
           \/ IncludesAny(lowerKeyword, CommercialDealWords)
           \/ MatchesPrice(lowerKeyword)
      [] intent = "navigational" ->
           \/ IncludesAny(lowerKeyword, NavigationalWords)
           \/ StartsWithAny(lowerKeyword, NavigationalPrefixes)
           \/ IncludesAny(lowerKeyword, NavigationalDomains)
      [] intent = "transactional" ->
           \/ IncludesAny(lowerKeyword, TransactionalWords)
           \/ IncludesAny(lowerKeyword, TransactionalFreeWords)

RECURSIVE ClassifyFrom(_, _, _, _)
ClassifyFrom(lowerKeyword, k, bestIntent, bestScore) ==
    IF k > Len(IntentOrder) THEN bestIntent
    ELSE IF IntentMatches(IntentOrder[k], lowerKeyword)
              /\ IntentWeight[IntentOrder[k]] > bestScore
         THEN ClassifyFrom(lowerKeyword, k + 1, IntentOrder[k], IntentWeight[IntentOrder[k]])
         ELSE ClassifyFrom(lowerKeyword, k + 1, bestIntent, bestScore)

\* a variant of classifyIntent that returns the first category that matches
classifyIntentFirstMatch(keyword) ==
    LET lowerKeyword == toLowerCase(keyword)
        matching == {k \in 1..Len(IntentOrder) : IntentMatches(IntentOrder[k], lowerKeyword)}
    IN  IF matching = {} THEN "informational" ELSE IntentOrder[SetMin(matching)]

\* classifyIntent
classifyIntent(keyword) == ClassifyFrom(toLowerCase(keyword), 1, "informational", 0)

\* the intent of every one of Queries
IntentOfQueries == Tabulate([q \in Queries |-> classifyIntent(q)])

intentOf(keyword) ==
    IF keyword \in DOMAIN IntentOfQueries THEN IntentOfQueries[keyword]
    ELSE classifyIntent(keyword)

\* ------------------------------------------------------------------------
\* Topic extraction
\* ------------------------------------------------------------------------
\* \w of the regular expressions
IsWordChar(c) ==
    c \in Digits \cup {"_"}
          \cup {"a", "b", "c", "d", "e", "f", "g", "h", "i", "j", "k", "l", "m",
                "n", "o", "p", "q", "r", "s", "t", "u", "v", "w", "x", "y", "z"}
          \cup DOMAIN UpperToLower

\* /^[\d\s\-_.]+$/ on a non-empty string
OnlyDigitsAndSeparators(s) ==
    \A i \in 1..Len(s) : s[i] \in Digits \/ IsSpace(s[i]) \/ s[i] \in {"-", "_", "."}

\* new RegExp(`\\b${a}\\b`, 'i') raises a SyntaxError when the interpolated
\* text leaves a group open or closes one that is not open.  (Parentheses are
\* the only characters special to regular expressions in the model's strings.)
RECURSIVE ParenDepthOk(_, _, _)
ParenDepthOk(a, i, depth) ==
    IF i > Len(a) THEN depth = 0
    ELSE IF a[i] = "(" THEN ParenDepthOk(a, i + 1, depth + 1)
    ELSE IF a[i] = ")" THEN depth > 0 /\ ParenDepthOk(a, i + 1, depth - 1)
    ELSE ParenDepthOk(a, i + 1, depth)

RegExpThrows(a) == ~ParenDepthOk(a, 1, 0)

\* \b at the gap after position i of k (0 <= i <= Len(k))
WordBoundary(k, i) ==
    (i >= 1 /\ IsWordChar(k[i])) # (i < Len(k) /\ IsWordChar(k[i + 1]))

\* new RegExp(`\\b${a}\\b`, 'i').test(k) for a lower-case a free of special
\* characters
MatchesAsWord(a, k) ==
    LET lower == toLowerCase(k)
    IN  \E i \in 0..(Len(k) - Len(a)) :
            /\ SubSeq(lower, i + 1, i + Len(a)) = a
            /\ WordBoundary(k, i)
            /\ WordBoundary(k, i + Len(a))

\* the candidates of one length, by ascending start offset
CandidatesOfLength(keywords, firstKeyword, len) ==
    LET Qualifies(start) ==
            LET sub == substring(firstKeyword, start, start + len)
            IN  /\ \A k \in 1..Len(keywords) : includes(toLowerCase(keywords[k]), sub)
                /\ ~OnlyDigitsAndSeparators(sub)
        starts == SelectSeq([i \in 1..(Len(firstKeyword) - len + 1) |-> i - 1], Qualifies)
    IN  [k \in 1..Len(starts) |-> substring(firstKeyword, starts[k], starts[k] + len)]

\* a variant of CommonSubstringsFrom that only tries the shortest length
CommonSubstringsOfLengthThree(keywords, firstKeyword, len) ==
    CandidatesOfLength(keywords, firstKeyword, 3)

\* the for loop over the lengths: the candidates of the longest length that has any
RECURSIVE CommonSubstringsFrom(_, _, _)
CommonSubstringsFrom(keywords, firstKeyword, len) ==
    IF len < 3 THEN <<>>
    ELSE LET found == CandidatesOfLength(keywords, firstKeyword, len)
         IN  IF Len(found) > 0 THEN found
             ELSE CommonSubstringsFrom(keywords, firstKeyword, len - 1)

\* the array handed to sort: the candidates with s.trim().length > 2
CommonSubstringCandidates(keywords) ==
    IF Len(keywords) < 2 THEN <<>>
    ELSE LET firstKeyword == toLowerCase(keywords[1])
             LongEnough(sub) == Len(trim(sub)) > 2
         IN  SelectSeq(CommonSubstringsFrom(keywords, firstKeyword,
                                            Min(Len(firstKeyword), 20)),
                       LongEnough)

\* the comparator runs once there are two candidates, and builds a RegExp of each
findCommonSubstringsThrows(keywords) ==
    LET candidates == CommonSubstringCandidates(keywords)
    IN  Len(candidates) >= 2 /\ \E k \in 1..Len(candidates) : RegExpThrows(candidates[k])

\* findCommonSubstrings: whole-word candidates first; the candidates all have
\* one length and the sort is stable
findCommonSubstrings(keywords) ==
    LET candidates == CommonSubstringCandidates(keywords)
        IsWord(sub) == \E k \in 1..Len(keywords) : MatchesAsWord(sub, keywords[k])
        NotWord(sub) == ~IsWord(sub)
    IN  IF Len(candidates) < 2 THEN candidates
        ELSE SelectSeq(candidates, IsWord) \o SelectSeq(candidates, NotWord)

\* tokenFreq of extractGroupTopic: the tokens longer than one character in
\* order of first occurrence, with the number of their occurrences
AllTokens(keywords) ==
    LET Long(t) == Len(t) > 1
    IN  SelectSeq(Flatten([k \in 1..Len(keywords) |-> getWordTokens(keywords[k])]), Long)

RECURSIVE Distinct(_, _)
Distinct(tokens, seen) ==
    IF tokens = <<>> THEN <<>>
    ELSE IF Head(tokens) \in seen THEN Distinct(Tail(tokens), seen)
    ELSE <<Head(tokens)>> \o Distinct(Tail(tokens), seen \cup {Head(tokens)})

Frequency(tokens, t) == Cardinality({i \in 1..Len(tokens) : tokens[i] = t})

\* the comparator of the token sort: frequency descending, then length descending
RECURSIVE InsertToken(_, _)
InsertToken(sorted, entry) ==
    IF sorted = <<>> THEN <<entry>>
    ELSE IF \/ Head(sorted).freq > entry.freq
            \/ Head(sorted).freq = entry.freq /\ Len(Head(sorted).token) >= Len(entry.token)
         THEN <<Head(sorted)>> \o InsertToken(Tail(sorted), entry)
         ELSE <<entry>> \o sorted

RECURSIVE SortTokensFrom(_, _, _)
SortTokensFrom(entries, k, sorted) ==
    IF k > Len(entries) THEN sorted
    ELSE SortTokensFrom(entries, k + 1, InsertToken(sorted, entries[k]))

\* commonTokens: freq > Math.min(2, keywords.length * 0.3), sorted, the first 3
commonTokens(keywords) ==
    LET tokens   == AllTokens(keywords)
        distinct == Distinct(tokens, {})
        entries  == [k \in 1..Len(distinct) |->
                        [token |-> distinct[k], freq |-> Frequency(tokens, distinct[k])]]
        Common(e) == e.freq * 10 > Min(20, Len(keywords) * 3)
        sorted   == SortTokensFrom(SelectSeq(entries, Common), 1, <<>>)
    IN  [k \in 1..Min(3, Len(sorted)) |-> sorted[k].token]

\* commonTokens.join(' + ') (the model's strings hold no CJK character)
RECURSIVE JoinTokens(_)
JoinTokens(tokens) ==
    IF Len(tokens) = 1 THEN tokens[1]
    ELSE tokens[1] \o <<" ", "+", " ">> \o JoinTokens(Tail(tokens))

\* the reduce of strategy 3: the first of the shortest keywords
RECURSIVE ShortestFrom(_, _, _)
ShortestFrom(keywords, k, shortest) ==
    IF k > Len(keywords) THEN shortest
    ELSE ShortestFrom(keywords, k + 1,
                      IF Len(keywords[k]) < Len(shortest) THEN keywords[k] ELSE shortest)

\* extractGroupTopic (when findCommonSubstrings does not throw)
extractGroupTopic(keywords) ==
    LET commonSubstrings == findCommonSubstrings(keywords)
    IN  IF Len(commonSubstrings) > 0 THEN commonSubstrings[1]
        ELSE LET common == commonTokens(keywords)
             IN  IF Len(common) > 0 THEN JoinTokens(common)
                 ELSE LET shortestKeyword == ShortestFrom(keywords, 1, keywords[1])
                      IN  IF Len(shortestKeyword) > 30
                          THEN substring(shortestKeyword, 0, 27) \o <<".", ".", ".">>
                          ELSE shortestKeyword

\* the outcome of extractGroupTopic for every list of Queries a cluster can hold
TopicOutcome(keywords) ==
    IF findCommonSubstringsThrows(keywords)
    THEN [throws |-> TRUE, topic |-> <<>>]
    ELSE [throws |-> FALSE, topic |-> extractGroupTopic(keywords)]

TopicOfQueries ==
    Tabulate([l \in SeqsUpTo(Queries, MaxRecords) \ {<<>>} |-> TopicOutcome(l)])

topicOutcomeOf(keywords) ==
    IF keywords \in DOMAIN TopicOfQueries THEN TopicOfQueries[keywords]
    ELSE TopicOutcome(keywords)

\* ------------------------------------------------------------------------
\* groupKeywords: records are named by their position in keywordData
\* ------------------------------------------------------------------------
Ids(data) == [i \in 1..Len(data) |-> i]

\* a variant of groupBySearchIntent that pushes every record to the first bucket
groupBySearchIntentOneBucket(data) ==
    [k \in 1..Len(IntentOrder) |->
        [intent   |-> IntentOrder[k],
         keywords |-> IF k = 1 THEN Ids(data) ELSE <<>>]]

\* groupBySearchIntent, as Object.entries of the four buckets
groupBySearchIntent(data) ==
    [k \in 1..Len(IntentOrder) |->
        [intent   |-> IntentOrder[k],
         keywords |-> LET InBucket(i) == intentOf(data[i].query) = IntentOrder[k]
                      IN  SelectSeq(Ids(data), InBucket)]]

\* createSimilarityMatrix over the records `items` of one bucket
createSimilarityMatrix(data, items) ==
    [i \in 1..Len(items) |-> [j \in 1..Len(items) |->
        IF i = j THEN <<1, 1>>
        ELSE calculateSimilarity(data[items[Min(i, j)]].query,
                                 data[items[Max(i, j)]].query)]]

\* Array.prototype.indexOf, 1-based
indexOf(items, item) == SetMin({i \in 1..Len(items) : items[i] = item})

\* getClusterSimilarity: Math.max folded over all pairs, from 0
RECURSIVE ClusterSimilarityFrom(_, _, _, _, _, _, _)
ClusterSimilarityFrom(cluster1, cluster2, sims, allItems, a, b, maxSoFar) ==
    IF a > Len(cluster1) THEN maxSoFar
    ELSE IF b > Len(cluster2)
         THEN ClusterSimilarityFrom(cluster1, cluster2, sims, allItems, a + 1, 1, maxSoFar)
         ELSE ClusterSimilarityFrom(cluster1, cluster2, sims, allItems, a, b + 1,
                  MathMax(maxSoFar,
                          sims[indexOf(allItems, cluster1[a])][indexOf(allItems, cluster2[b])]))

\* a variant of getClusterSimilarity whose maximum starts from 1
getClusterSimilarityFromOne(cluster1, cluster2, sims, allItems) ==
    ClusterSimilarityFrom(cluster1, cluster2, sims, allItems, 1, 1, <<1, 1>>)

getClusterSimilarity(cluster1, cluster2, sims, allItems) ==
    ClusterSimilarityFrom(cluster1, cluster2, sims, allItems, 1, 1, <<0, 1>>)

\* a variant of belowThreshold that is also true at the threshold
belowOrAtThreshold(maxSim, threshold) == ~RatLess(threshold, maxSim)

\* a variant of belowThreshold that takes the threshold for a distance: the
\* loop stops when the similarity is below 1 - threshold
belowOneMinusThreshold(maxSim, threshold) ==
    RatLess(maxSim, RatAdd(<<1, 1>>, RatMul(<<-1, 1>>, threshold)))

\* line 526: maxSimilarity < threshold
belowThreshold(maxSim, threshold) == RatLess(maxSim, threshold)

\* the scan of one round of the while loop: the first pair (i, j), i < j, in
\* nested ascending order whose similarity is strictly above all earlier ones
RECURSIVE FindMergeFrom(_, _, _, _, _, _)
FindMergeFrom(cls, sims, items, i, j, best) ==
    IF i > Len(cls) THEN best
    ELSE IF j > Len(cls) THEN FindMergeFrom(cls, sims, items, i + 1, i + 2, best)
    ELSE LET similarity == getClusterSimilarity(cls[i], cls[j], sims, items)
         IN  IF RatLess(best.maxSimilarity, similarity)
             THEN FindMergeFrom(cls, sims, items, i, j + 1,
                      [maxSimilarity |-> similarity, mergeIndices |-> <<i, j>>])
             ELSE FindMergeFrom(cls, sims, items, i, j + 1, best)

\* a variant of the scan that replaces the pair found when a later one is as
\* similar (>= in place of >)
RECURSIVE FindMergeLastFrom(_, _, _, _, _, _)
FindMergeLastFrom(cls, sims, items, i, j, best) ==
    IF i > Len(cls) THEN best
    ELSE IF j > Len(cls) THEN FindMergeLastFrom(cls, sims, items, i + 1, i + 2, best)
    ELSE LET similarity == getClusterSimilarity(cls[i], cls[j], sims, items)
         IN  IF ~RatLess(similarity, best.maxSimilarity)
             THEN FindMergeLastFrom(cls, sims, items, i, j + 1,
                      [maxSimilarity |-> similarity, mergeIndices |-> <<i, j>>])
             ELSE FindMergeLastFrom(cls, sims, items, i, j + 1, best)

FindMergeLast(cls, sims, items) ==
    FindMergeLastFrom(cls, sims, items, 1, 2,
                      [maxSimilarity |-> <<-1, 1>>, mergeIndices |-> <<-1, -1>>])

\* a variant of FindMerge whose search starts from 1 in place of -1
FindMergeFromOne(cls, sims, items) ==
    FindMergeFrom(cls, sims, items, 1, 2,
                  [maxSimilarity |-> <<1, 1>>, mergeIndices |-> <<-1, -1>>])

FindMerge(cls, sims, items) ==
    FindMergeFrom(cls, sims, items, 1, 2,
                  [maxSimilarity |-> <<-1, 1>>, mergeIndices |-> <<-1, -1>>])

\* a variant of MergeClusters that removes cluster i only
MergeClustersKeepsSecond(cls, i, j) ==
    LET Keep(k) == k # i
        kept == SelectSeq([k \in 1..Len(cls) |-> k], Keep)
    IN  [k \in 1..Len(kept) |-> cls[kept[k]]] \o <<cls[i] \o cls[j]>>

\* the merge of clusters i and j: both are removed and their concatenation is
\* pushed at the end
MergeClusters(cls, i, j) ==
    LET Keep(k) == k # i /\ k # j
        kept == SelectSeq([k \in 1..Len(cls) |-> k], Keep)
    IN  [k \in 1..Len(kept) |-> cls[kept[k]]] \o <<cls[i] \o cls[j]>>

\* calculateGroupMetrics
calculateGroupMetrics(data, keywords) ==
    [totalClicks  |-> SumSeq([k \in 1..Len(keywords) |-> data[keywords[k]].clicks]),
     keywordCount |-> Len(keywords)]

\* cluster.map(item => item.query)
QueriesOf(data, cluster) == [k \in 1..Len(cluster) |-> data[cluster[k]].query]

\* a variant of CollectCluster in which the size test is lost: every cluster
\* becomes a group
CollectClusterNoFloor(data, opts, intent, acc, cluster) ==
    [acc EXCEPT !.groups = Append(@,
        [id       |-> Len(acc.groups) + 1,
         topic    |-> topicOutcomeOf(QueriesOf(data, cluster)).topic,
         intent   |-> IF opts.groupByIntent THEN intent
                      ELSE intentOf(data[cluster[1]].query),
         keywords |-> cluster,
         metrics  |-> calculateGroupMetrics(data, cluster),
         size     |-> Len(cluster),
         expanded |-> FALSE])]

\* a variant of CollectCluster whose id counts the groups of the bucket only
CollectClusterIdPerBucket(data, opts, intent, acc, cluster) ==
    IF Len(cluster) >= opts.minGroupSize
    THEN [acc EXCEPT !.groups = Append(@,
            [id       |-> Cardinality({k \in 1..Len(acc.groups) :
                                          acc.groups[k].intent = intent}) + 1,
             topic    |-> topicOutcomeOf(QueriesOf(data, cluster)).topic,
             intent   |-> IF opts.groupByIntent THEN intent
                          ELSE intentOf(data[cluster[1]].query),
             keywords |-> cluster,
             metrics  |-> calculateGroupMetrics(data, cluster),
             size     |-> Len(cluster),
             expanded |-> FALSE])]
    ELSE [acc EXCEPT !.ungrouped = @ \o cluster]

\* the body of clusters.forEach for one cluster
CollectCluster(data, opts, intent, acc, cluster) ==
    IF Len(cluster) >= opts.minGroupSize
    THEN [acc EXCEPT !.groups = Append(@,
            [id       |-> Len(acc.groups) + 1,
             topic    |-> topicOutcomeOf(QueriesOf(data, cluster)).topic,
             intent   |-> IF opts.groupByIntent THEN intent
                          ELSE intentOf(data[cluster[1]].query),
             keywords |-> cluster,
             metrics  |-> calculateGroupMetrics(data, cluster),
             size     |-> Len(cluster),
             expanded |-> FALSE])]
    ELSE [acc EXCEPT !.ungrouped = @ \o cluster]

RECURSIVE CollectFrom(_, _, _, _, _, _)
CollectFrom(data, opts, intent, cls, k, acc) ==
    IF k > Len(cls) THEN acc
    ELSE CollectFrom(data, opts, intent, cls, k + 1,
                     CollectCluster(data, opts, intent, acc, cls[k]))

\* finalGroups.sort((a, b) => b.metrics.totalClicks - a.metrics.totalClicks):
\* a stable sort, descending
RECURSIVE InsertByClicks(_, _)
InsertByClicks(sorted, group) ==
    IF sorted = <<>> THEN <<group>>
    ELSE IF Head(sorted).metrics.totalClicks >= group.metrics.totalClicks
         THEN <<Head(sorted)>> \o InsertByClicks(Tail(sorted), group)
         ELSE <<group>> \o sorted

RECURSIVE SortByClicksFrom(_, _, _)
SortByClicksFrom(groups, k, sorted) ==
    IF k > Len(groups) THEN sorted
    ELSE SortByClicksFrom(groups, k + 1, InsertByClicks(sorted, groups[k]))

\* a variant of sortByTotalClicks in which the sort is lost
sortByTotalClicksNoSort(groups) == groups

\* a variant of sortByTotalClicks with the comparator reversed (a - b)
sortByTotalClicksAscending(groups) ==
    LET sorted == SortByClicksFrom(groups, 1, <<>>)
    IN  [k \in 1..Len(sorted) |-> sorted[Len(sorted) + 1 - k]]

sortByTotalClicks(groups) == SortByClicksFrom(groups, 1, <<>>)

\* a variant of spliceStart that removes from one place too far
spliceStartOffByOne(len, start) ==
    IF start < 0 THEN Max(len + start, 0) ELSE Min(start + 1, len)

\* the first index removed by Array.prototype.splice(start), 0-based: a
\* negative start counts from the end
spliceStart(len, start) ==
    IF start < 0 THEN Max(len + start, 0) ELSE Min(start, len)

\* a variant of finishGrouping in which the groups removed by the cap are not
\* pushed to ungrouped
finishGroupingDropsExtra(data, opts, groups, ungr) ==
    LET sorted == sortByTotalClicks(groups)
        capped == Len(sorted) > opts.maxGroups
        keepN  == IF capped THEN spliceStart(Len(sorted), opts.maxGroups) ELSE Len(sorted)
        kept   == SubSeq(sorted, 1, keepN)
    IN  [groups          |-> kept,
         ungrouped       |-> ungr,
         totalGroups     |-> Len(kept),
         totalKeywords   |-> Len(data),
         groupedKeywords |-> SumSeq([k \in 1..Len(kept) |-> kept[k].size])]

\* the lines after the loop: sort, cap, and build the returned object
finishGrouping(data, opts, groups, ungr) ==
    LET sorted == sortByTotalClicks(groups)
        capped == Len(sorted) > opts.maxGroups
        keepN  == IF capped THEN spliceStart(Len(sorted), opts.maxGroups) ELSE Len(sorted)
        kept   == SubSeq(sorted, 1, keepN)
        extraGroups == SubSeq(sorted, keepN + 1, Len(sorted))
    IN  [groups          |-> kept,
         ungrouped       |-> ungr \o Flatten([k \in 1..Len(extraGroups) |-> extraGroups[k].keywords]),
         totalGroups     |-> Len(kept),
         totalKeywords   |-> Len(data),
         groupedKeywords |-> SumSeq([k \in 1..Len(kept) |-> kept[k].size])]

\* a variant of bucketTooSmall that lets a bucket of one record be clustered
bucketTooSmallBelowOne(intentKeywords) == Len(intentKeywords) < 1

\* line 404: intentKeywords.length < 2
bucketTooSmall(intentKeywords) == Len(intentKeywords) < 2

\* ------------------------------------------------------------------------
\* groupKeywords as a function of its arguments: the outcome of one whole call
\* ------------------------------------------------------------------------
\* the while loop of performHierarchicalClustering from the clusters `cls` on
RECURSIVE ClusteringFrom(_, _, _, _)
ClusteringFrom(cls, sims, items, threshold) ==
    LET best == FindMerge(cls, sims, items)
    IN  IF belowThreshold(best.maxSimilarity, threshold)
        THEN [throws |-> FALSE, clusters |-> cls]
        ELSE IF best.mergeIndices = <<-1, -1>>
             THEN [throws |-> TRUE, clusters |-> cls]
             ELSE ClusteringFrom(MergeClusters(cls, best.mergeIndices[1], best.mergeIndices[2]),
                                 sims, items, threshold)

\* performHierarchicalClustering
performHierarchicalClustering(items, sims, threshold) ==
    ClusteringFrom([k \in 1..Len(items) |-> <<items[k]>>], sims, items, threshold)

\* the for-of loop of groupKeywords from bucket k on
RECURSIVE ProcessBucketsFrom(_, _, _, _, _)
ProcessBucketsFrom(data, opts, buckets, k, acc) ==
    IF k > Len(buckets) THEN [throws |-> FALSE, groups |-> acc.groups, ungrouped |-> acc.ungrouped]
    ELSE LET intentKeywords == buckets[k].keywords
         IN  IF bucketTooSmall(intentKeywords)
             THEN ProcessBucketsFrom(data, opts, buckets, k + 1,
                      [acc EXCEPT !.ungrouped = @ \o intentKeywords])
             ELSE LET clustering ==
                          performHierarchicalClustering(intentKeywords,
                              createSimilarityMatrix(data, intentKeywords),
                              opts.similarityThreshold)
                      cls == clustering.clusters
                  IN  IF \/ clustering.throws
                         \/ \E c \in 1..Len(cls) :
                               /\ Len(cls[c]) >= opts.minGroupSize
                               /\ topicOutcomeOf(QueriesOf(data, cls[c])).throws
                      THEN [throws |-> TRUE, groups |-> acc.groups, ungrouped |-> acc.ungrouped]
                      ELSE ProcessBucketsFrom(data, opts, buckets, k + 1,
                               CollectFrom(data, opts, buckets[k].intent, cls, 1, acc))

\* groupKeywords: whether the call throws, and the object it returns otherwise
groupKeywords(data, opts) ==
    IF Len(data) = 0
    THEN [throws |-> FALSE, result |-> [groups |-> <<>>, ungrouped |-> <<>>]]
    ELSE LET buckets == IF opts.groupByIntent THEN groupBySearchIntent(data)
                        ELSE <<[intent |-> "all", keywords |-> Ids(data)]>>
             looped == ProcessBucketsFrom(data, opts, buckets, 1,
                                          [groups |-> <<>>, ungrouped |-> <<>>])
         IN  IF looped.throws THEN [throws |-> TRUE, result |-> NoValue]
             ELSE [throws |-> FALSE,
                   result |-> finishGrouping(data, opts, looped.groups, looped.ungrouped)]

\* ------------------------------------------------------------------------
\* Specification Spec: one call of groupKeywords
\* ------------------------------------------------------------------------
ClickValues == {0, 1}

\* the records: every query without clicks, two of them with a click as well
KeywordRecords ==
    {r \in [query : Queries, clicks : ClickValues] :
        r.clicks = 0 \/ r.query \in {<<"u", "y", " ", "a", "b">>,
                                     <<"b", "u", "y", " ", "(", "a", "b">>}}

Thresholds == {<<-1, 1>>, <<3, 10>>, <<1, 2>>, <<1, 1>>}
MinGroupSizes == {1, 2}
MaxGroupsValues == {-1, 0, 2}

OptionValues ==
    [similarityThreshold : Thresholds, minGroupSize : MinGroupSizes,
     maxGroups : MaxGroupsValues, groupByIntent : BOOLEAN]

SimIdle ==
    /\ keyword1 = <<>>
    /\ keyword2 = <<>>
    /\ score = NoValue
    /\ simPc = "idle"

IntentIdle ==
    /\ intentKeyword = <<>>
    /\ intentResult = ""
    /\ intentPc = "idle"

TopicIdle ==
    /\ topicKeywords = <<>>
    /\ topicResult = NoValue
    /\ topicPc = "idle"

MetricIdle ==
    /\ metricKeywords = <<>>
    /\ metricResult = NoValue
    /\ metricPc = "idle"

\* a variable of the UI that is null or holds a string: null, or the string
\* as the one element of a sequence; the result is null or the object itself
null == <<>>

\* the state of the grouping UI when the module is loaded
UiIdle ==
    /\ currentGroupingResult = null
    /\ groupingEnabled = FALSE
    /\ currentGroupFilters = [intent |-> null, minClicks |-> null, minSize |-> null,
                              searchTerm |-> null]

\* four records of two intents, two informational and two commercial, one of
\* the commercial ones with a click
ClickedBuckets ==
    <<[query |-> <<"u", "y", " ", "a", "b">>, clicks |-> 0],
      [query |-> <<"u", "y", " ", "a", "b">>, clicks |-> 0],
      [query |-> <<"b", "u", "y", " ", "(", "a", "b">>, clicks |-> 1],
      [query |-> <<"b", "u", "y", " ", "(", "a", "b">>, clicks |-> 0]>>

Init ==
    /\ keywordData \in SeqsUpTo(KeywordRecords, MaxRecords) \cup {ClickedBuckets}
    /\ options \in OptionValues
    /\ pc = "entry"
    /\ keywordsByIntent = <<>>
    /\ bucketIdx = 0
    /\ similarities = <<>>
    /\ clusters = <<>>
    /\ maxSimilarity = <<-1, 1>>
    /\ mergeIndices = <<-1, -1>>
    /\ finalGroups = <<>>
    /\ ungrouped = <<>>
    /\ result = NoValue
    /\ SimIdle
    /\ IntentIdle
    /\ TopicIdle
    /\ MetricIdle
    /\ UiIdle

\* lines 393-395: the early return on empty input
ReturnEmpty ==
    /\ pc = "entry"
    /\ Len(keywordData) = 0
    /\ result' = [groups |-> <<>>, ungrouped |-> <<>>]
    /\ pc' = "done"
    /\ UNCHANGED <<keywordData, options, keywordsByIntent, bucketIdx, similarities,
                   clusters, maxSimilarity, mergeIndices, finalGroups, ungrouped>>
    /\ UNCHANGED simVars
    /\ UNCHANGED unitVars
    /\ UNCHANGED uiVars

\* lines 397-400: the buckets
Enter ==
    /\ pc = "entry"
    /\ Len(keywordData) # 0
    /\ keywordsByIntent' =
          IF options.groupByIntent THEN groupBySearchIntent(keywordData)
          ELSE <<[intent |-> "all", keywords |-> Ids(keywordData)]>>
    /\ bucketIdx' = 1
    /\ pc' = "loop"
    /\ UNCHANGED <<keywordData, options, similarities, clusters, maxSimilarity,
                   mergeIndices, finalGroups, ungrouped, result>>
    /\ UNCHANGED simVars
    /\ UNCHANGED unitVars
    /\ UNCHANGED uiVars

\* lines 404-407: a bucket of fewer than 2 records
SkipSmallBucket ==
    /\ pc = "loop"
    /\ bucketIdx <= Len(keywordsByIntent)
    /\ bucketTooSmall(keywordsByIntent[bucketIdx].keywords)
    /\ ungrouped' = ungrouped \o keywordsByIntent[bucketIdx].keywords
    /\ bucketIdx' = bucketIdx + 1
    /\ UNCHANGED <<keywordData, options, pc, keywordsByIntent, similarities,
                   clusters, maxSimilarity, mergeIndices, finalGroups, result>>
    /\ UNCHANGED simVars
    /\ UNCHANGED unitVars
    /\ UNCHANGED uiVars

\* lines 410 and 508: the matrix and the singleton clusters
StartClustering ==
    /\ pc = "loop"
    /\ bucketIdx <= Len(keywordsByIntent)
    /\ ~bucketTooSmall(keywordsByIntent[bucketIdx].keywords)
    /\ similarities' = createSimilarityMatrix(keywordData, keywordsByIntent[bucketIdx].keywords)
    /\ clusters' = [k \in 1..Len(keywordsByIntent[bucketIdx].keywords) |->
                       <<keywordsByIntent[bucketIdx].keywords[k]>>]
    /\ pc' = "scan"
    /\ UNCHANGED <<keywordData, options, keywordsByIntent, bucketIdx, maxSimilarity,
                   mergeIndices, finalGroups, ungrouped, result>>
    /\ UNCHANGED simVars
    /\ UNCHANGED unitVars
    /\ UNCHANGED uiVars

\* lines 511-523: the scan of one round of the while loop
ScanClusters ==
    /\ pc = "scan"
    /\ LET best == FindMerge(clusters, similarities, keywordsByIntent[bucketIdx].keywords)
       IN  /\ maxSimilarity' = best.maxSimilarity
           /\ mergeIndices' = best.mergeIndices
    /\ pc' = "scanned"
    /\ UNCHANGED <<keywordData, options, keywordsByIntent, bucketIdx, similarities,
                   clusters, finalGroups, ungrouped, result>>
    /\ UNCHANGED simVars
    /\ UNCHANGED unitVars
    /\ UNCHANGED uiVars

\* lines 526-528: the break
StopMerging ==
    /\ pc = "scanned"
    /\ belowThreshold(maxSimilarity, options.similarityThreshold)
    /\ pc' = "collect"
    /\ UNCHANGED <<keywordData, options, keywordsByIntent, bucketIdx, similarities,
                   clusters, maxSimilarity, mergeIndices, finalGroups, ungrouped, result>>
    /\ UNCHANGED simVars
    /\ UNCHANGED unitVars
    /\ UNCHANGED uiVars

\* lines 531-534: the merge of the pair found
MergeRound ==
    /\ pc = "scanned"
    /\ ~belowThreshold(maxSimilarity, options.similarityThreshold)
    /\ mergeIndices # <<-1, -1>>
    /\ clusters' = MergeClusters(clusters, mergeIndices[1], mergeIndices[2])
    /\ pc' = "scan"
    /\ UNCHANGED <<keywordData, options, keywordsByIntent, bucketIdx, similarities,
                   maxSimilarity, mergeIndices, finalGroups, ungrouped, result>>
    /\ UNCHANGED simVars
    /\ UNCHANGED unitVars
    /\ UNCHANGED uiVars

\* lines 531-532: no pair was found and the loop did not break: clusters[-1]
\* is undefined and spreading it raises a TypeError
MergeThrows ==
    /\ pc = "scanned"
    /\ ~belowThreshold(maxSimilarity, options.similarityThreshold)
    /\ mergeIndices = <<-1, -1>>
    /\ pc' = "threw"
    /\ UNCHANGED <<keywordData, options, keywordsByIntent, bucketIdx, similarities,
                   clusters, maxSimilarity, mergeIndices, finalGroups, ungrouped, result>>
    /\ UNCHANGED simVars
    /\ UNCHANGED unitVars
    /\ UNCHANGED uiVars

Collected ==
    CollectFrom(keywordData, options, keywordsByIntent[bucketIdx].intent, clusters, 1,
                [groups |-> finalGroups, ungrouped |-> ungrouped])

\* line 422 raises: findCommonSubstrings throws for a cluster that is to
\* become a group
TopicThrows ==
    \E k \in 1..Len(clusters) :
        /\ Len(clusters[k]) >= options.minGroupSize
        /\ topicOutcomeOf(QueriesOf(keywordData, clusters[k])).throws

\* lines 420-437: the clusters of the bucket become groups or go to ungrouped
CollectClusters ==
    /\ pc = "collect"
    /\ ~TopicThrows
    /\ LET collected == Collected
       IN  /\ finalGroups' = collected.groups
           /\ ungrouped' = collected.ungrouped
    /\ similarities' = <<>>
    /\ clusters' = <<>>
    /\ maxSimilarity' = <<-1, 1>>
    /\ mergeIndices' = <<-1, -1>>
    /\ bucketIdx' = bucketIdx + 1
    /\ pc' = "loop"
    /\ UNCHANGED <<keywordData, options, keywordsByIntent, result>>
    /\ UNCHANGED simVars
    /\ UNCHANGED unitVars
    /\ UNCHANGED uiVars

\* lines 420-423 and 367-379: the SyntaxError of the RegExp constructor
\* leaves groupKeywords
CollectThrows ==
    /\ pc = "collect"
    /\ TopicThrows
    /\ pc' = "threw"
    /\ UNCHANGED <<keywordData, options, keywordsByIntent, bucketIdx, similarities,
                   clusters, maxSimilarity, mergeIndices, finalGroups, ungrouped, result>>
    /\ UNCHANGED simVars
    /\ UNCHANGED unitVars
    /\ UNCHANGED uiVars

\* lines 440-455: sort, cap and return
Finish ==
    /\ pc = "loop"
    /\ bucketIdx > Len(keywordsByIntent)
    /\ result' = finishGrouping(keywordData, options, finalGroups, ungrouped)
    /\ pc' = "done"
    /\ UNCHANGED <<keywordData, options, keywordsByIntent, bucketIdx, similarities,
                   clusters, maxSimilarity, mergeIndices, finalGroups, ungrouped>>
    /\ UNCHANGED simVars
    /\ UNCHANGED unitVars
    /\ UNCHANGED uiVars

Next ==
    \/ ReturnEmpty
    \/ Enter
    \/ SkipSmallBucket
    \/ StartClustering
    \/ ScanClusters
    \/ StopMerging
    \/ MergeRound
    \/ MergeThrows
    \/ CollectClusters
    \/ CollectThrows
    \/ Finish

Spec == Init /\ [][Next]_vars

\* ------------------------------------------------------------------------
\* Properties of groupKeywords (Spec)
\* ------------------------------------------------------------------------
Returned == pc = "done"

Range(q) == {q[i] : i \in 1..Len(q)}

\* the records of the returned groups, group after group
GroupedRecords(res) == Flatten([k \in 1..Len(res.groups) |-> res.groups[k].keywords])

\* every place of the output that holds a record
OutputPlaces(res) == GroupedRecords(res) \o res.ungrouped

\* the cap removed at least one group
CapDissolved == Returned /\ Len(keywordData) > 0 /\ Len(result.groups) < Len(finalGroups)

\* C1: every input record appears in exactly one place of the output, in the
\* keywords of one returned group or in ungrouped: never in two places, never
\* twice, never dropped, whatever the options and also when the cap dissolves
\* groups.
PartitionConservation ==
    Returned =>
        /\ Len(OutputPlaces(result)) = Len(keywordData)
        /\ Range(OutputPlaces(result)) = 1..Len(keywordData)

\* a call in which the cap dissolved a group and both a group and ungrouped
\* records are returned
PartitionConservationWitness ==
    /\ CapDissolved
    /\ Len(result.groups) >= 1
    /\ Len(result.ungrouped) >= 1
    /\ \E k \in 1..Len(result.groups) : result.groups[k].size >= 2

\* C2: for any call, empty input included, groupedKeywords is the sum of the
\* sizes of the returned groups, groupedKeywords + length(ungrouped) is
\* totalKeywords, and totalKeywords is the number of input records.
CountsConsistent ==
    Returned =>
        /\ {"groupedKeywords", "totalKeywords"} \subseteq DOMAIN result
        /\ result.groupedKeywords
             = SumSeq([k \in 1..Len(result.groups) |-> result.groups[k].size])
        /\ result.groupedKeywords + Len(result.ungrouped) = result.totalKeywords
        /\ result.totalKeywords = Len(keywordData)

\* C3: no returned group is smaller than minGroupSize, no cluster smaller than
\* minGroupSize becomes a group, and the members of every such cluster are in
\* ungrouped once the clusters of the bucket are collected.
SizeFloor ==
    /\ \A k \in 1..Len(finalGroups) :
          /\ finalGroups[k].size >= options.minGroupSize
          /\ finalGroups[k].size = Len(finalGroups[k].keywords)
    /\ Returned =>
          \A k \in 1..Len(result.groups) :
              /\ result.groups[k].size >= options.minGroupSize
              /\ result.groups[k].size = Len(result.groups[k].keywords)
    /\ pc = "loop" =>
          \A b \in 1..(bucketIdx - 1) : \A i \in Range(keywordsByIntent[b].keywords) :
              \/ i \in Range(ungrouped)
              \/ \E k \in 1..Len(finalGroups) :
                    /\ i \in Range(finalGroups[k].keywords)
                    /\ finalGroups[k].size >= options.minGroupSize

\* a call with minGroupSize 2 that returns a group and has left a clustered
\* record out for the size of its cluster
SizeFloorWitness ==
    /\ Returned
    /\ Len(keywordData) > 0
    /\ options.minGroupSize = 2
    /\ Len(result.groups) >= 1
    /\ ~options.groupByIntent
    /\ Len(result.ungrouped) >= 1
    /\ ~CapDissolved

\* C4: the returned groups are sorted by metrics.totalClicks, descending, also
\* after the cap has removed groups.
SortedByTotalClicks ==
    Returned =>
        \A k \in 1..(Len(result.groups) - 1) :
            result.groups[k].metrics.totalClicks >= result.groups[k + 1].metrics.totalClicks

\* a call whose groups were created in another order than the returned one,
\* with a group removed by the cap
SortedByTotalClicksWitness ==
    /\ CapDissolved
    /\ Len(result.groups) >= 2
    /\ result.groups[1].metrics.totalClicks > result.groups[2].metrics.totalClicks
    /\ result.groups[1].id > result.groups[2].id

\* C5 as stated: the number of returned groups is at most maxGroups for every
\* value of maxGroups the caller passes.
CapEnforcedForEveryValue ==
    Returned => Len(result.groups) <= options.maxGroups

\* C5, amended: the number of returned groups is at most maxGroups for every
\* maxGroups >= 0.
CapEnforced ==
    (Returned /\ options.maxGroups >= 0) => Len(result.groups) <= options.maxGroups

\* a call that formed more groups than a non-negative maxGroups allows
CapEnforcedWitness ==
    /\ CapDissolved
    /\ options.maxGroups = 2
    /\ Len(finalGroups) = 3
    /\ Len(result.groups) = 2

\* the groups the call formed that it does not return
DissolvedGroups ==
    {finalGroups[k] : k \in {j \in 1..Len(finalGroups) :
        \A r \in 1..Len(result.groups) : result.groups[r].id # finalGroups[j].id}}

\* exactly maxGroups of the groups formed are returned, no dissolved group has
\* more clicks than a returned one, and the keywords of the dissolved groups
\* are in ungrouped and in no returned group
CapKeepsTheBest ==
    /\ Len(result.groups) = options.maxGroups
    /\ Range(result.groups) \subseteq Range(finalGroups)
    /\ \A d \in DissolvedGroups :
          /\ \A r \in 1..Len(result.groups) :
                result.groups[r].metrics.totalClicks >= d.metrics.totalClicks
          /\ \A i \in Range(d.keywords) :
                /\ i \in Range(result.ungrouped)
                /\ i \notin Range(GroupedRecords(result))

\* C6 as stated: whenever more groups are formed than maxGroups, exactly
\* maxGroups are retained, the highest-ranked by totalClicks, and every keyword
\* of a dissolved group is moved to ungrouped.
CapDissolvesLowestForEveryValue ==
    (Returned /\ Len(keywordData) > 0 /\ Len(finalGroups) > options.maxGroups)
        => CapKeepsTheBest

\* C6, amended: the same for every maxGroups >= 0.
CapDissolvesLowest ==
    (Returned /\ Len(keywordData) > 0 /\ options.maxGroups >= 0
        /\ Len(finalGroups) > options.maxGroups)
        => CapKeepsTheBest

\* a call that formed three groups of different clicks for maxGroups = 2
CapDissolvesLowestWitness ==
    /\ Returned
    /\ options.maxGroups = 2
    /\ Len(finalGroups) = 3
    /\ \E d \in DissolvedGroups :
          /\ d.size >= 1
          /\ \E r \in 1..Len(result.groups) :
                result.groups[r].metrics.totalClicks > d.metrics.totalClicks

\* C7: on empty input the call returns all five fields: groups [], ungrouped
\* [], totalGroups 0, totalKeywords 0, groupedKeywords 0.
EmptyInputFullResult ==
    (Returned /\ Len(keywordData) = 0) =>
        /\ DOMAIN result =
             {"groups", "ungrouped", "totalGroups", "totalKeywords", "groupedKeywords"}
        /\ result.groups = <<>>
        /\ result.ungrouped = <<>>
        /\ result.totalGroups = 0
        /\ result.totalKeywords = 0
        /\ result.groupedKeywords = 0

\* C8: the call has no exception path: for every list of records and every
\* options value it completes and returns a result.
NoExceptionPath == pc # "threw"

\* the orders in which n records can be handed over
Orders(n) == {p \in [1..n -> 1..n] : \A a, b \in 1..n : p[a] = p[b] => a = b}

\* the records of data in the order p
Reordered(data, p) == [k \in 1..Len(data) |-> data[p[k]]]

\* the groups of a result as sets of records and the set of its ungrouped
\* records, for a call that was handed the records in the order p
Membership(res, p) ==
    [groups    |-> {{p[i] : i \in Range(res.groups[k].keywords)} : k \in 1..Len(res.groups)},
     ungrouped |-> {p[i] : i \in Range(res.ungrouped)}]

\* C12: the order of the input does not affect the final membership: for every
\* reordering of the same records under the same options, a call that returns
\* gives the same groups as sets of records and the same set of ungrouped
\* records.
OrderIndependentMembership ==
    (Returned /\ Len(keywordData) > 0) =>
        \A p \in Orders(Len(keywordData)) :
            LET other == groupKeywords(Reordered(keywordData, p), options)
            IN  ~other.throws =>
                    Membership(other.result, p)
                      = Membership(result, [i \in 1..Len(keywordData) |-> i])

\* the records of the buckets of fewer than 2 records among the first n buckets
SmallBucketRecords(n) ==
    UNION {Range(keywordsByIntent[b].keywords) :
              b \in {c \in 1..n : Len(keywordsByIntent[c].keywords) < 2}}

\* C15: every record of a bucket of fewer than 2 records goes to ungrouped
\* without clustering, so that such a bucket never gives a group; a
\* single-record input returns groups = [] and ungrouped = [the record] for
\* every minGroupSize, 1 included.
SmallBucketsUngrouped ==
    /\ pc \in {"scan", "scanned", "collect"} =>
          Len(keywordsByIntent[bucketIdx].keywords) >= 2
    /\ pc \in {"loop", "scan", "scanned", "collect"} =>
          \A i \in SmallBucketRecords(bucketIdx - 1) :
              /\ i \in Range(ungrouped)
              /\ \A k \in 1..Len(finalGroups) : i \notin Range(finalGroups[k].keywords)
    /\ (Returned /\ Len(keywordData) > 0) =>
          \A i \in SmallBucketRecords(Len(keywordsByIntent)) :
              /\ i \in Range(result.ungrouped)
              /\ i \notin Range(GroupedRecords(result))
    /\ (Returned /\ Len(keywordData) = 1) =>
          /\ result.groups = <<>>
          /\ result.ungrouped = <<1>>

\* a call on a single record with minGroupSize 1 and room for groups
SmallBucketsUngroupedWitness ==
    /\ Returned
    /\ Len(keywordData) = 1
    /\ options.minGroupSize = 1
    /\ options.maxGroups = 2
    /\ result.groups = <<>>
    /\ result.ungrouped = <<1>>

\* the merge loop is at work on a bucket
Clustering == pc \in {"scan", "scanned", "collect"}

\* the records of the bucket at work
BucketRecords == Range(keywordsByIntent[bucketIdx].keywords)

\* the similarity of the queries of two records
RecordSimilarity(x, y) == calculateSimilarity(keywordData[x].query, keywordData[y].query)

\* S and its complement in the bucket are two non-empty sets with every
\* similarity across them below the threshold
Separated(S) ==
    /\ S # {}
    /\ S # BucketRecords
    /\ \A x \in S : \A y \in BucketRecords \ S :
          RatLess(RecordSimilarity(x, y), options.similarityThreshold)

\* C16: when the records of a bucket split into two sets with every similarity
\* across them below similarityThreshold, no cluster holds a record of the one
\* together with a record of the other, at any step and for every order of the
\* records.
SeparatedNeverMerge ==
    Clustering =>
        \A S \in SUBSET BucketRecords :
            Separated(S) =>
                \A k \in 1..Len(clusters) :
                    \/ Range(clusters[k]) \subseteq S
                    \/ Range(clusters[k]) \subseteq BucketRecords \ S

\* the loop has ended with a cluster of two records on one side of a split and
\* on the other side a record that has some similarity with them, below the
\* threshold
SeparatedNeverMergeWitness ==
    /\ pc = "collect"
    /\ options.similarityThreshold = <<3, 10>>
    /\ Cardinality(BucketRecords) = 3
    /\ Len(clusters) = 2
    /\ \E S \in SUBSET BucketRecords :
          /\ Separated(S)
          /\ Cardinality(S) = 1
          /\ \A x \in S : \A y \in BucketRecords \ S :
                RatLess(<<0, 1>>, RecordSimilarity(x, y))

\* C18: at every step of the merge loop (at its start, after each merge and at
\* its end) the clusters are a partition of the records of the bucket: every
\* record is in exactly one cluster and no cluster is empty.
ClustersPartition ==
    Clustering =>
        /\ Len(Flatten(clusters)) = Cardinality(BucketRecords)
        /\ Range(Flatten(clusters)) = BucketRecords
        /\ \A k \in 1..Len(clusters) : clusters[k] # <<>>

\* after a merge, a cluster of two records and a cluster of one
ClustersPartitionWitness ==
    /\ pc = "scan"
    /\ Len(clusters) = 2
    /\ Len(clusters[1]) = 1
    /\ Len(clusters[2]) = 2
    /\ options.similarityThreshold # <<-1, 1>>

\* the greatest of a non-empty set of numbers
Greatest(S) == CHOOSE m \in S : \A x \in S : ~RatLess(m, x)

\* the single-linkage similarity of two clusters: the greatest similarity of a
\* record of the one with a record of the other
SingleLinkage(c1, c2) ==
    Greatest({RecordSimilarity(x, y) : x \in Range(c1), y \in Range(c2)})

\* the pairs (i, j), i < j, of current clusters
ClusterPairs == {p \in (1..Len(clusters)) \X (1..Len(clusters)) : p[1] < p[2]}

\* the step merges clusters i and j: they are replaced by their union and the
\* other clusters stay
MergesPair(i, j) ==
    {Range(clusters'[k]) : k \in 1..Len(clusters')}
      = ({Range(clusters[k]) : k \in 1..Len(clusters)}
            \ {Range(clusters[i]), Range(clusters[j])})
        \cup {Range(clusters[i]) \cup Range(clusters[j])}

\* a merge round, and the end of the loop
MergeStep == pc = "scanned" /\ pc' = "scan"
StopStep == pc = "scanned" /\ pc' = "collect"

\* (i, j) comes first among the pairs of greatest single-linkage similarity
FirstBestPair(i, j) ==
    \A p \in ClusterPairs :
        LET mine   == SingleLinkage(clusters[i], clusters[j])
            theirs == SingleLinkage(clusters[p[1]], clusters[p[2]])
        IN  /\ ~RatLess(mine, theirs)
            /\ theirs = mine => (i < p[1] \/ (i = p[1] /\ j <= p[2]))

\* C19: each merge round merges the pair of clusters (i, j), i < j, of greatest
\* single-linkage similarity among all pairs of current clusters, and among
\* several pairs of that similarity the lexicographically smallest (i, j).
MergesFirstBestPair ==
    [][MergeStep => \E p \in ClusterPairs : MergesPair(p[1], p[2]) /\ FirstBestPair(p[1], p[2])]_vars

\* after a merge round on three records of one query, whose three pairs tie:
\* the first two records were merged
MergesFirstBestPairWitness ==
    /\ pc = "scan"
    /\ ~options.groupByIntent
    /\ Len(keywordData) = 3
    /\ keywordData[1].query = keywordData[2].query
    /\ keywordData[2].query = keywordData[3].query
    /\ options.similarityThreshold = <<1, 2>>
    /\ clusters = <<<<3>>, <<1, 2>>>>

\* the greatest inter-cluster similarity a round finds: the greatest
\* single-linkage similarity of a pair of clusters, and -1, the value the
\* search starts from, when a single cluster is left
GreatestFound ==
    IF ClusterPairs = {} THEN <<-1, 1>>
    ELSE Greatest({SingleLinkage(clusters[p[1]], clusters[p[2]]) : p \in ClusterPairs})

GroupIntent ==
    (Returned /\ Len(keywordData) > 0) =>
        \A g \in 1..Len(result.groups) :
            LET group == result.groups[g]
            IN  IF options.groupByIntent
                THEN \A k \in 1..Len(group.keywords) :
                        classifyIntent(keywordData[group.keywords[k]].query) = group.intent
                ELSE group.intent = classifyIntent(keywordData[group.keywords[1]].query)

\* with groupByIntent: a commercial group of two records is returned for an
\* input that holds an informational record as well
GroupIntentWitness ==
    /\ Returned
    /\ options.groupByIntent
    /\ \E k \in 1..Len(keywordData) : classifyIntent(keywordData[k].query) = "informational"
    /\ \E g \in 1..Len(result.groups) :
          /\ result.groups[g].intent = "commercial"
          /\ Len(result.groups[g].keywords) = 2

\* C29: the ids of the groups returned by one call are pairwise distinct,
\* also across intent buckets and after the sort and the cap; the number n of
\* the id group_<n> is the 1-based creation rank of the group (its place in
\* finalGroups as the buckets pushed it), so the returned ids need not be
\* consecutive nor follow the returned order.
GroupIdsDistinct ==
    (Returned /\ Len(keywordData) > 0) =>
        /\ \A i, j \in 1..Len(result.groups) :
              result.groups[i].id = result.groups[j].id => i = j
        /\ \A i \in 1..Len(result.groups) :
              /\ result.groups[i].id \in 1..Len(finalGroups)
              /\ finalGroups[result.groups[i].id] = result.groups[i]

\* groups of two buckets are returned, the second created before the first
GroupIdsDistinctWitness ==
    /\ Returned
    /\ options.groupByIntent
    /\ Len(result.groups) = 2
    /\ result.groups[1].id = 2
    /\ result.groups[2].id = 1
    /\ result.groups[1].intent = "commercial"
    /\ result.groups[2].intent = "informational"

\* a step of the while loop of performHierarchicalClustering: the call leaves
\* the scan (by ScanClusters) or the test after it (by StopMerging, MergeRound
\* or MergeThrows); these are the only steps of Next that do
LoopStep ==
    /\ pc \in {"scan", "scanned"}
    /\ pc' \in {"scan", "scanned", "collect", "threw"}
    /\ pc' # pc

\* Specification SpecFair: a call of groupKeywords whose while loop is run on:
\* the loop body is straight-line code, so a loop that can take a step takes it
SpecFair == Init /\ [][Next]_vars /\ WF_pc(LoopStep)

\* similarityThreshold is in [0, 1]
ThresholdInUnitInterval ==
    /\ ~RatLess(options.similarityThreshold, <<0, 1>>)
    /\ ~RatLess(<<1, 1>>, options.similarityThreshold)

\* C21: for a threshold in [0, 1] the merge loop of a bucket of k >= 2 records
\* ends: each merge round leaves one cluster less, the number of clusters stays
\* between 1 and k (so there are at most k - 1 merges), with a single cluster
\* left the loop stops and returns it, and every loop that starts reaches its
\* end.
MergeLoopTerminates ==
    /\ [][MergeStep => Len(clusters') = Len(clusters) - 1]_vars
    /\ [](Clustering =>
            /\ Cardinality(BucketRecords) >= 2
            /\ Len(clusters) >= 1
            /\ Len(clusters) <= Cardinality(BucketRecords))
    /\ [][(ThresholdInUnitInterval /\ pc = "scanned" /\ Len(clusters) = 1 /\ pc' # pc)
            => (StopStep /\ clusters' = clusters)]_vars
    /\ (ThresholdInUnitInterval /\ pc = "scan") ~> (pc = "collect")

\* the loop has ended on a bucket of three records after two merges, with one
\* cluster left
MergeLoopTerminatesWitness ==
    /\ pc = "collect"
    /\ ThresholdInUnitInterval
    /\ Cardinality(BucketRecords) = 3
    /\ Len(clusters) = 1
    /\ mergeIndices = <<-1, -1>>

\* ------------------------------------------------------------------------
\* Specification SpecSim: one call of calculateAlgorithmicSimilarity on any
\* two strings over SimAlphabet of length at most MaxLen
\* ------------------------------------------------------------------------
\* keyword1 ranges over the lower-case strings, keyword2 over the lower-case
\* and the upper-case ones
LowerAlphabet == {"a", " "}
UpperAlphabet == {"A", " "}

RECURSIVE StringsUpTo(_, _)
StringsUpTo(alphabet, n) ==
    IF n = 0 THEN {<<>>}
    ELSE LET shorter == StringsUpTo(alphabet, n - 1)
         IN  shorter \cup {Append(s, c) : s \in shorter, c \in alphabet}

GroupIdle ==
    /\ keywordData = <<>>
    /\ options = [similarityThreshold |-> <<1, 2>>, minGroupSize |-> 2,
                  maxGroups |-> 20, groupByIntent |-> TRUE]
    /\ pc = "idle"
    /\ keywordsByIntent = <<>>
    /\ bucketIdx = 0
    /\ similarities = <<>>
    /\ clusters = <<>>
    /\ maxSimilarity = <<-1, 1>>
    /\ mergeIndices = <<-1, -1>>
    /\ finalGroups = <<>>
    /\ ungrouped = <<>>
    /\ result = NoValue

SimInit ==
    /\ keyword1 \in StringsUpTo(LowerAlphabet, MaxLen)
    /\ keyword2 \in StringsUpTo(LowerAlphabet, MaxLen) \cup StringsUpTo(UpperAlphabet, MaxLen)
    /\ score = NoValue
    /\ simPc = "call"
    /\ GroupIdle
    /\ IntentIdle
    /\ TopicIdle
    /\ MetricIdle
    /\ UiIdle

CalculateSimilarity ==
    /\ simPc = "call"
    /\ score' = calculateAlgorithmicSimilarity(keyword1, keyword2)
    /\ simPc' = "returned"
    /\ UNCHANGED <<keyword1, keyword2>>
    /\ UNCHANGED groupVars
    /\ UNCHANGED unitVars
    /\ UNCHANGED uiVars

SimNext == CalculateSimilarity

SpecSim == SimInit /\ [][SimNext]_vars

\* ------------------------------------------------------------------------
\* Properties of the similarity (SpecSim)
\* ------------------------------------------------------------------------
InUnitInterval(x) == ~IsNaN(x) /\ ~RatLess(x, <<0, 1>>) /\ ~RatLess(<<1, 1>>, x)

SimilarityBounded ==
    simPc = "returned" => InUnitInterval(score)

\* C11: whenever the two strings are equal ignoring case the returned value is
\* exactly 1, whatever the other signals would give; in particular
\* similarity(a, a) = 1 for every non-empty a.
ExactMatchIsOne ==
    (simPc = "returned" /\ toLowerCase(keyword1) = toLowerCase(keyword2)) => score = <<1, 1>>

\* a call on two non-empty strings that differ in case only
ExactMatchIsOneWitness ==
    /\ simPc = "returned"
    /\ Len(keyword1) > 0
    /\ keyword1 # keyword2
    /\ toLowerCase(keyword1) = toLowerCase(keyword2)
    /\ \E i \in 1..Len(keyword1) : keyword1[i] = "a"
    /\ score = <<1, 1>>

\* ------------------------------------------------------------------------
\* Specification SpecIntent: one call of classifyIntent on a keyword of at
\* most MaxWords words
\* ------------------------------------------------------------------------
\* "How", "buy", "login", "free", "xy" and "9"
IntentWords ==
    {<<"H", "o", "w">>, <<"b", "u", "y">>, <<"l", "o", "g", "i", "n">>,
     <<"f", "r", "e", "e">>, <<"x", "y">>, <<"9">>}

RECURSIVE JoinWords(_)
JoinWords(words) ==
    IF words = <<>> THEN <<>>
    ELSE IF Len(words) = 1 THEN words[1]
    ELSE words[1] \o <<" ">> \o JoinWords(Tail(words))

IntentKeywords == {JoinWords(words) : words \in SeqsUpTo(IntentWords, MaxWords)}

IntentInit ==
    /\ intentKeyword \in IntentKeywords
    /\ intentResult = ""
    /\ intentPc = "call"
    /\ SimIdle
    /\ GroupIdle
    /\ TopicIdle
    /\ MetricIdle
    /\ UiIdle

ClassifyIntent ==
    /\ intentPc = "call"
    /\ intentResult' = classifyIntent(intentKeyword)
    /\ intentPc' = "returned"
    /\ UNCHANGED intentKeyword
    /\ UNCHANGED <<simVars, groupVars, topicVars, metricVars>>
    /\ UNCHANGED uiVars

IntentNext == ClassifyIntent

SpecIntent == IntentInit /\ [][IntentNext]_vars

\* ------------------------------------------------------------------------
\* Properties of the intent classification (SpecIntent)
\* ------------------------------------------------------------------------
\* the categories with a pattern that matches the lower-cased keyword
MatchingIntents(keyword) ==
    {c \in Range(IntentOrder) : IntentMatches(c, toLowerCase(keyword))}

\* the place of a category in the declaration order
DeclaredAt(c) == CHOOSE k \in 1..Len(IntentOrder) : IntentOrder[k] = c

\* C13: classifyIntent returns, among the categories with a pattern that
\* matches the lower-cased keyword, the one of highest weight, the one declared
\* first among those of that weight; informational when no category matches;
\* always one of the four intents.
ClassifiesByWeight ==
    intentPc = "returned" =>
        /\ intentResult \in Range(IntentOrder)
        /\ MatchingIntents(intentKeyword) = {} => intentResult = "informational"
        /\ MatchingIntents(intentKeyword) # {} =>
              /\ intentResult \in MatchingIntents(intentKeyword)
              /\ \A c \in MatchingIntents(intentKeyword) :
                    \/ IntentWeight[c] < IntentWeight[intentResult]
                    \/ /\ IntentWeight[c] = IntentWeight[intentResult]
                       /\ DeclaredAt(intentResult) <= DeclaredAt(c)

\* a keyword that three categories match, classified as one that is neither
\* the first nor the last declared of them
ClassifiesByWeightWitness ==
    /\ intentPc = "returned"
    /\ MatchingIntents(intentKeyword) = {"informational", "navigational", "transactional"}
    /\ intentKeyword # toLowerCase(intentKeyword)
    /\ intentResult = "transactional"

\* ------------------------------------------------------------------------
\* calculateGroupMetrics on records whose clicks, impressions and position
\* hold any JavaScript value: a number, a string, or nothing (undefined).
\* (calculateGroupMetrics above is its restriction to integer clicks.)
\* ------------------------------------------------------------------------
JsUndefined == [type |-> "undefined", num |-> NaN, str |-> <<>>]
JsNumber(x) == [type |-> "number", num |-> x, str |-> <<>>]
JsString(t) == [type |-> "string", num |-> NaN, str |-> t]

DecimalDigits == <<"0", "1", "2", "3", "4", "5", "6", "7", "8", "9">>

\* the decimal digits of a natural number
RECURSIVE DigitsOf(_)
DigitsOf(n) ==
    IF n < 10 THEN <<DecimalDigits[n + 1]>>
    ELSE DigitsOf(n \div 10) \o <<DecimalDigits[(n % 10) + 1]>>

\* the value of a non-empty string of decimal digits
RECURSIVE ValueOfDigits(_, _)
ValueOfDigits(t, acc) ==
    IF t = <<>> THEN acc
    ELSE ValueOfDigits(Tail(t),
             10 * acc + (CHOOSE d \in 0..9 : DecimalDigits[d + 1] = Head(t)))

\* ToString, as applied by + to an operand when the other one is a string
\* (the numbers that reach it are natural numbers or NaN)
JsToString(v) ==
    CASE v.type = "string" -> v.str
      [] v.type = "undefined" -> <<"u", "n", "d", "e", "f", "i", "n", "e", "d">>
      [] v.type = "number" ->
           IF IsNaN(v.num) THEN <<"N", "a", "N">> ELSE DigitsOf(v.num[1])

\* ToNumber, as applied by >, / and by + on two operands that are not strings
JsToNumber(v) ==
    CASE v.type = "number" -> v.num
      [] v.type = "undefined" -> NaN
      [] v.type = "string" ->
           IF v.str = <<>> THEN <<0, 1>>
           ELSE IF \A i \in 1..Len(v.str) : v.str[i] \in Digits
                THEN <<ValueOfDigits(v.str, 0), 1>>
                ELSE NaN

\* v || fallback: the fallback when v is falsy (undefined, 0, NaN, "")
JsOr(v, fallback) ==
    IF \/ v.type = "undefined"
       \/ v.type = "number" /\ (IsNaN(v.num) \/ v.num[1] = 0)
       \/ v.type = "string" /\ v.str = <<>>
    THEN fallback ELSE v

\* a + b: concatenation as soon as one operand is a string
JsAdd(a, b) ==
    IF a.type = "string" \/ b.type = "string"
    THEN JsString(JsToString(a) \o JsToString(b))
    ELSE JsNumber(RatAdd(JsToNumber(a), JsToNumber(b)))

\* x / y for y > 0 or NaN
RatDiv(x, y) ==
    IF IsNaN(x) \/ IsNaN(y) THEN NaN ELSE Rat(x[1] * y[2], x[2] * y[1])

\* Math.round on a number that is not negative
MathRound(x) ==
    IF IsNaN(x) THEN NaN ELSE <<(2 * x[1] + x[2]) \div (2 * x[2]), 1>>

\* keywords.reduce((sum, kw) => sum + (kw[field] || 0), 0)
RECURSIVE SumFieldFrom(_, _, _, _)
SumFieldFrom(keywords, field, k, sum) ==
    IF k > Len(keywords) THEN sum
    ELSE SumFieldFrom(keywords, field, k + 1,
             JsAdd(sum, JsOr(keywords[k][field], JsNumber(<<0, 1>>))))

calculateGroupMetricsJs(keywords) ==
    LET totalClicks      == SumFieldFrom(keywords, "clicks", 1, JsNumber(<<0, 1>>))
        totalImpressions == SumFieldFrom(keywords, "impressions", 1, JsNumber(<<0, 1>>))
        avgCTR ==
            IF RatLess(<<0, 1>>, JsToNumber(totalImpressions))
            THEN RatMul(RatDiv(JsToNumber(totalClicks), JsToNumber(totalImpressions)), <<100, 1>>)
            ELSE <<0, 1>>
        avgPosition ==
            RatDiv(JsToNumber(SumFieldFrom(keywords, "position", 1, JsNumber(<<0, 1>>))),
                   <<Len(keywords), 1>>)
    IN  [totalClicks      |-> totalClicks,
         totalImpressions |-> totalImpressions,
         avgCTR           |-> RatDiv(MathRound(RatMul(avgCTR, <<100, 1>>)), <<100, 1>>),
         avgPosition      |-> RatDiv(MathRound(RatMul(avgPosition, <<10, 1>>)), <<10, 1>>),
         keywordCount     |-> Len(keywords)]

\* ------------------------------------------------------------------------
\* Specification SpecMetrics: one call of calculateGroupMetrics on the records
\* of a cluster
\* ------------------------------------------------------------------------
\* a field is missing, 0, 1, or the string "x"
MetricFieldValues ==
    {JsUndefined, JsNumber(<<0, 1>>), JsNumber(<<1, 1>>), JsString(<<"x">>)}

MetricRecords ==
    [clicks : MetricFieldValues, impressions : MetricFieldValues,
     position : MetricFieldValues]

MetricInit ==
    /\ metricKeywords \in SeqsUpTo(MetricRecords, MaxMetricRecords) \ {<<>>}
    /\ metricResult = NoValue
    /\ metricPc = "call"
    /\ SimIdle
    /\ GroupIdle
    /\ IntentIdle
    /\ TopicIdle
    /\ UiIdle

CalculateGroupMetrics ==
    /\ metricPc = "call"
    /\ metricResult' = calculateGroupMetricsJs(metricKeywords)
    /\ metricPc' = "returned"
    /\ UNCHANGED metricKeywords
    /\ UNCHANGED <<simVars, groupVars, intentVars, topicVars>>
    /\ UNCHANGED uiVars

MetricNext == CalculateGroupMetrics

SpecMetrics == MetricInit /\ [][MetricNext]_vars

\* ------------------------------------------------------------------------
\* Properties of the metrics (SpecMetrics)
\* ------------------------------------------------------------------------
IsNumeric(v) == v.type = "number" /\ ~IsNaN(v.num)

\* the record with every missing or non-numeric field replaced by 0
WithZeros(r) ==
    [f \in DOMAIN r |-> IF IsNumeric(r[f]) THEN r[f] ELSE JsNumber(<<0, 1>>)]

\* C14: a missing or non-numeric clicks, impressions or position contributes 0:
\* the metrics of the records are the metrics of the same records with each
\* such field replaced by 0, and the totals are numbers.
MissingCountsAsZero ==
    metricPc = "returned" =>
        /\ metricResult =
             calculateGroupMetricsJs([k \in 1..Len(metricKeywords) |->
                                         WithZeros(metricKeywords[k])])
        /\ IsNumeric(metricResult.totalClicks)
        /\ IsNumeric(metricResult.totalImpressions)

\* ------------------------------------------------------------------------
\* Specification SpecTopic: one call of extractGroupTopic on the queries of a
\* cluster of two records
\* ------------------------------------------------------------------------
\* a query of 22 characters, and one that shares its first 21
LongQuery == [i \in 1..22 |-> "a"]
LongQueryOther == [i \in 1..22 |-> IF i = 22 THEN "1" ELSE "A"]

\* two queries that share "1 1" and "a1a" and nothing longer
DigitsFirst == <<"1", " ", "1", " ", "a", "1", "a">>
DigitsLast == <<"A", "1", "A", " ", "1", " ", "1">>

\* "aa 11 a1a 1a" and "11": four tokens and no common substring of 3
\* characters
TokensFirst == <<"a", "a", " ", "1", "1", " ", "a", "1", "a", " ", "1", "a">>
TokensLast == <<"1", "1">>

\* the clusters: two short queries, the second one in upper case; one short
\* query; two long queries; two queries with a common run of digits; two
\* queries with four tokens; two queries with a parenthesis
TopicClusters ==
    {<<k1>> : k1 \in StringsUpTo({"a", "1", " "}, MaxTopicLen)} \cup
    {<<k1, k2>> : k1 \in StringsUpTo({"a", "1", " "}, MaxTopicLen),
                  k2 \in StringsUpTo({"A", "1", " "}, MaxTopicLen)}
    \cup {<<LongQuery, LongQuery>>, <<LongQuery, LongQueryOther>>,
          <<LongQueryOther, LongQuery>>, <<DigitsFirst, DigitsLast>>,
          <<TokensFirst, TokensLast>>}
    \cup {<<k1, k2>> : k1 \in Queries, k2 \in Queries}

TopicInit ==
    /\ topicKeywords \in TopicClusters
    /\ topicResult = NoValue
    /\ topicPc = "call"
    /\ SimIdle
    /\ GroupIdle
    /\ IntentIdle
    /\ MetricIdle
    /\ UiIdle

ExtractGroupTopic ==
    /\ topicPc = "call"
    /\ ~findCommonSubstringsThrows(topicKeywords)
    /\ topicResult' = extractGroupTopic(topicKeywords)
    /\ topicPc' = "returned"
    /\ UNCHANGED topicKeywords
    /\ UNCHANGED <<simVars, groupVars, intentVars, metricVars>>
    /\ UNCHANGED uiVars

\* the SyntaxError of the RegExp constructor leaves extractGroupTopic
ExtractGroupTopicThrows ==
    /\ topicPc = "call"
    /\ findCommonSubstringsThrows(topicKeywords)
    /\ topicPc' = "threw"
    /\ UNCHANGED <<topicKeywords, topicResult>>
    /\ UNCHANGED <<simVars, groupVars, intentVars, metricVars>>
    /\ UNCHANGED uiVars

TopicNext == ExtractGroupTopic \/ ExtractGroupTopicThrows

SpecTopic == TopicInit /\ [][TopicNext]_vars

\* ------------------------------------------------------------------------
\* Properties of the topic (SpecTopic)
\* ------------------------------------------------------------------------
\* the common-substring search gave the topic
FromCommonSubstrings ==
    topicPc = "returned" /\ Len(findCommonSubstrings(topicKeywords)) > 0

\* sub occurs in every query of the cluster, case ignored
InEveryQuery(sub) ==
    \A k \in 1..Len(topicKeywords) :
        LET query == toLowerCase(topicKeywords[k])
        IN  \E i \in 0..(Len(query) - Len(sub)) :
                SubSeq(query, i + 1, i + Len(sub)) = toLowerCase(sub)

\* sub holds only digits, whitespace and the separators - _ .
OnlyDigitsSpacesSeparators(sub) ==
    \A i \in 1..Len(sub) : sub[i] \in Digits \cup {" ", "-", "_", "."}

\* the candidates of one length: the substrings of that length of the first
\* query, lower-cased
CandidatesAt(len) ==
    LET first == toLowerCase(topicKeywords[1])
    IN  {SubSeq(first, i + 1, i + len) : i \in 0..(Len(first) - len)}

\* C17: a topic that comes from the common-substring search occurs, case
\* ignored, in every query of the cluster, has a length from 3 to 20, is not
\* made of digits, whitespace and separators only, and no longer candidate of
\* the first query qualifies (the search stops at the longest length that has
\* a qualifying candidate).
TopicIsLongestCommonSubstring ==
    FromCommonSubstrings =>
        /\ InEveryQuery(topicResult)
        /\ Len(topicResult) >= 3
        /\ Len(topicResult) <= 20
        /\ ~OnlyDigitsSpacesSeparators(topicResult)
        /\ \A len \in (Len(topicResult) + 1)..20 :
              \A sub \in CandidatesAt(len) :
                  ~(InEveryQuery(sub) /\ ~OnlyDigitsSpacesSeparators(sub))

\* a topic shorter than the first query and not at its start, for a second
\* query in upper case, where a longer common substring holds no letter
TopicIsLongestCommonSubstringWitness ==
    /\ FromCommonSubstrings
    /\ topicKeywords[2] # toLowerCase(topicKeywords[2])
    /\ Len(topicResult) < Len(topicKeywords[1])
    /\ SubSeq(topicKeywords[1], 1, Len(topicResult)) # topicResult
    /\ \E len \in 3..MaxTopicLen : \E sub \in CandidatesAt(len) :
          InEveryQuery(sub) /\ OnlyDigitsSpacesSeparators(sub)

\* ------------------------------------------------------------------------
\* Specification SpecMatrix: one call of createSimilarityMatrix on the records
\* of a bucket
\* ------------------------------------------------------------------------
\* "", " ", "a", "A" and "a a"
MatrixQueries == {<<>>, <<" ">>, <<"a">>, <<"A">>, <<"a", " ", "a">>}

MatrixInit ==
    /\ keywordData \in SeqsUpTo([query : MatrixQueries, clicks : {0}], MaxRecords)
    /\ options = [similarityThreshold |-> <<1, 2>>, minGroupSize |-> 2,
                  maxGroups |-> 20, groupByIntent |-> TRUE]
    /\ pc = "matrix"
    /\ keywordsByIntent = <<>>
    /\ bucketIdx = 0
    /\ similarities = <<>>
    /\ clusters = <<>>
    /\ maxSimilarity = <<-1, 1>>
    /\ mergeIndices = <<-1, -1>>
    /\ finalGroups = <<>>
    /\ ungrouped = <<>>
    /\ result = NoValue
    /\ SimIdle
    /\ IntentIdle
    /\ TopicIdle
    /\ MetricIdle
    /\ UiIdle

CreateSimilarityMatrix ==
    /\ pc = "matrix"
    /\ similarities' = createSimilarityMatrix(keywordData, Ids(keywordData))
    /\ pc' = "matrixDone"
    /\ UNCHANGED <<keywordData, options, keywordsByIntent, bucketIdx, clusters,
                   maxSimilarity, mergeIndices, finalGroups, ungrouped, result>>
    /\ UNCHANGED simVars
    /\ UNCHANGED unitVars
    /\ UNCHANGED uiVars

MatrixNext == CreateSimilarityMatrix

SpecMatrix == MatrixInit /\ [][MatrixNext]_vars

\* ------------------------------------------------------------------------
\* Properties of the similarity matrix (SpecMatrix)
\* ------------------------------------------------------------------------
\* C22: the matrix built for n records is n by n, symmetric, 1 on the diagonal,
\* with every entry a number in [0, 1], and its entry (i, j), i # j, is the
\* similarity of the queries of records i and j.
MatrixWellFormed ==
    pc = "matrixDone" =>
        LET n == Len(keywordData)
        IN  /\ Len(similarities) = n
            /\ \A i \in 1..n : Len(similarities[i]) = n
            /\ \A i \in 1..n : \A j \in 1..n :
                  /\ similarities[i][j] = similarities[j][i]
                  /\ ~IsNaN(similarities[i][j])
                  /\ ~RatLess(similarities[i][j], <<0, 1>>)
                  /\ ~RatLess(<<1, 1>>, similarities[i][j])
                  /\ i = j => similarities[i][j] = <<1, 1>>
                  /\ i # j => similarities[i][j] =
                        calculateAlgorithmicSimilarity(keywordData[i].query,
                                                       keywordData[j].query)


\* some substring of the first query, of 3 to 20 characters, qualifies
SomeCandidateQualifies ==
    \E len \in 3..20 : \E sub \in CandidatesAt(len) :
        InEveryQuery(sub) /\ ~OnlyDigitsSpacesSeparators(sub)

\* C24: the fallbacks are used only if the common-substring search finds
\* nothing: whenever some substring of the first query, of 3 to 20 characters,
\* occurs in every query, case ignored, and is not made of digits, whitespace
\* and separators only, the returned topic is such a common substring.
FallbackOnlyWithoutCandidate ==
    (topicPc = "returned" /\ SomeCandidateQualifies) =>
        /\ Len(topicResult) >= 3
        /\ Len(topicResult) <= 20
        /\ topicResult \in CandidatesAt(Len(topicResult))
        /\ InEveryQuery(topicResult)
        /\ ~OnlyDigitsSpacesSeparators(topicResult)


\* the topic comes from the fallbacks: the common-substring search gave nothing
FromFallback ==
    topicPc = "returned" /\ Len(findCommonSubstrings(topicKeywords)) = 0

\* the number of occurrences in the cluster of a token of more than one character
TokenCount(token) == Frequency(AllTokens(topicKeywords), token)

\* the tokens of the label
KeptTokens == commonTokens(topicKeywords)

\* C25: in the token-frequency fallback a token is kept only if its frequency
\* in the cluster exceeds max(2, 0.3 * cluster size); the kept tokens are in
\* order of frequency descending, then length descending; at most 3 make the
\* label.
TokenFallbackKeepsFrequent ==
    FromFallback =>
        /\ \A k \in 1..Len(KeptTokens) :
              TokenCount(KeptTokens[k]) * 10 > Max(20, Len(topicKeywords) * 3)
        /\ \A k \in 1..(Len(KeptTokens) - 1) :
              \/ TokenCount(KeptTokens[k]) > TokenCount(KeptTokens[k + 1])
              \/ /\ TokenCount(KeptTokens[k]) = TokenCount(KeptTokens[k + 1])
                 /\ Len(KeptTokens[k]) >= Len(KeptTokens[k + 1])
        /\ Len(KeptTokens) <= 3
        /\ Len(KeptTokens) > 0 => topicResult = JoinTokens(KeptTokens)

\* ------------------------------------------------------------------------
\* Specification SpecAnyOrder: one call of groupKeywords whose for-of loop
\* takes the intent buckets in any order
\* ------------------------------------------------------------------------
\* lines 397-400, with the entries of keywordsByIntent in the order p
EnterAnyOrder ==
    /\ pc = "entry"
    /\ Len(keywordData) # 0
    /\ options.groupByIntent
    /\ \E p \in Orders(Len(IntentOrder)) :
          keywordsByIntent' =
              [k \in 1..Len(IntentOrder) |-> groupBySearchIntent(keywordData)[p[k]]]
    /\ bucketIdx' = 1
    /\ pc' = "loop"
    /\ UNCHANGED <<keywordData, options, similarities, clusters, maxSimilarity,
                   mergeIndices, finalGroups, ungrouped, result>>
    /\ UNCHANGED simVars
    /\ UNCHANGED unitVars
    /\ UNCHANGED uiVars

\* two records of an informational query and two of a commercial one
TwoBuckets ==
    <<[query |-> <<"u", "y", " ", "a", "b">>, clicks |-> 0],
      [query |-> <<"u", "y", " ", "a", "b">>, clicks |-> 0],
      [query |-> <<"b", "u", "y", " ", "(", "a", "b">>, clicks |-> 0],
      [query |-> <<"b", "u", "y", " ", "(", "a", "b">>, clicks |-> 0]>>

\* the calls with groupByIntent on records without clicks
AnyOrderInit ==
    /\ keywordData \in SeqsUpTo([query : Queries, clicks : {0}], MaxRecords) \cup {TwoBuckets}
    /\ options \in {o \in OptionValues : o.groupByIntent}
    /\ pc = "entry"
    /\ keywordsByIntent = <<>>
    /\ bucketIdx = 0
    /\ similarities = <<>>
    /\ clusters = <<>>
    /\ maxSimilarity = <<-1, 1>>
    /\ mergeIndices = <<-1, -1>>
    /\ finalGroups = <<>>
    /\ ungrouped = <<>>
    /\ result = NoValue
    /\ SimIdle
    /\ IntentIdle
    /\ TopicIdle
    /\ MetricIdle
    /\ UiIdle

NextAnyOrder ==
    \/ ReturnEmpty
    \/ EnterAnyOrder
    \/ SkipSmallBucket
    \/ StartClustering
    \/ ScanClusters
    \/ StopMerging
    \/ MergeRound
    \/ MergeThrows
    \/ CollectClusters
    \/ CollectThrows
    \/ Finish

SpecAnyOrder == AnyOrderInit /\ [][NextAnyOrder]_vars

ClusterQueries == {<<" ", " ">>, <<" ", " ", " ">>, <<" ", "a", " ">>, <<"a">>, <<"A">>}

\* -1, 0, 0.1, 1/6 and 1
ClusterThresholds == {<<-1, 1>>, <<0, 1>>, <<1, 10>>, <<1, 6>>, <<1, 1>>}

ClusterInit ==
    /\ keywordData \in {l \in SeqsUpTo([query : ClusterQueries, clicks : {0}], MaxRecords) :
                           Len(l) >= 2}
    /\ options \in [similarityThreshold : ClusterThresholds, minGroupSize : {2},
                    maxGroups : {20}, groupByIntent : {FALSE}]
    /\ pc = "cluster"
    /\ keywordsByIntent = <<>>
    /\ bucketIdx = 0
    /\ similarities = <<>>
    /\ clusters = <<>>
    /\ maxSimilarity = <<-1, 1>>
    /\ mergeIndices = <<-1, -1>>
    /\ finalGroups = <<>>
    /\ ungrouped = <<>>
    /\ result = NoValue
    /\ SimIdle
    /\ IntentIdle
    /\ TopicIdle
    /\ MetricIdle
    /\ UiIdle

\* lines 410 and 508: the matrix of the bucket and the singleton clusters
BeginClustering ==
    /\ pc = "cluster"
    /\ keywordsByIntent' = <<[intent |-> "all", keywords |-> Ids(keywordData)]>>
    /\ bucketIdx' = 1
    /\ similarities' = createSimilarityMatrix(keywordData, Ids(keywordData))
    /\ clusters' = [k \in 1..Len(keywordData) |-> <<k>>]
    /\ pc' = "scan"
    /\ UNCHANGED <<keywordData, options, maxSimilarity, mergeIndices, finalGroups,
                   ungrouped, result>>
    /\ UNCHANGED simVars
    /\ UNCHANGED unitVars
    /\ UNCHANGED uiVars

ClusterNext ==
    \/ BeginClustering
    \/ ScanClusters
    \/ StopMerging
    \/ MergeRound
    \/ MergeThrows

SpecCluster == ClusterInit /\ [][ClusterNext]_vars

\* ------------------------------------------------------------------------
\* Properties of the clusters (SpecCluster)
\* ------------------------------------------------------------------------
\* performHierarchicalClustering has returned, for a threshold in (0, 1]
ClustersReturned ==
    /\ pc = "collect"
    /\ RatLess(<<0, 1>>, options.similarityThreshold)
    /\ ~RatLess(<<1, 1>>, options.similarityThreshold)

\* an edge of the graph: two records of pairwise similarity >= the threshold
Edge(x, y) ==
    /\ x # y
    /\ ~IsNaN(RecordSimilarity(x, y))
    /\ ~RatLess(RecordSimilarity(x, y), options.similarityThreshold)

\* the records a chain of edges links to a record of S
RECURSIVE LinkedTo(_)
LinkedTo(S) ==
    LET more == S \cup {y \in BucketRecords : \E x \in S : Edge(x, y)}
    IN  IF more = S THEN S ELSE LinkedTo(more)

\* C27: for a threshold in (0, 1] the returned clusters are the connected
\* components of the graph on the records of the bucket whose edges join two
\* records of pairwise similarity >= the threshold: two records share a
\* cluster if and only if a chain of such edges links them.
ClustersAreComponents ==
    ClustersReturned =>
        \A x, y \in BucketRecords :
            (\E k \in 1..Len(clusters) : {x, y} \subseteq Range(clusters[k]))
                <=> y \in LinkedTo({x})


\* the clusters performHierarchicalClustering returns for the same bucket and
\* matrix at the threshold t
ClustersAt(t) ==
    performHierarchicalClustering(keywordsByIntent[bucketIdx].keywords, similarities, t).clusters

\* the thresholds of [0, 1] that are at most the threshold of the call
LowerThresholds ==
    {t \in ClusterThresholds : InUnitInterval(t) /\ ~RatLess(options.similarityThreshold, t)}

\* C28: raising the threshold only refines the clustering: for the same
\* bucket and thresholds t1 <= t2 in [0, 1], every cluster returned at t2 is a
\* subset of some cluster returned at t1.
HigherThresholdRefines ==
    (pc = "collect" /\ InUnitInterval(options.similarityThreshold)) =>
        \A t1 \in LowerThresholds :
            \A k \in 1..Len(clusters) :
                \E m \in 1..Len(ClustersAt(t1)) :
                    Range(clusters[k]) \subseteq Range(ClustersAt(t1)[m])

\* three records, two of them merged at the threshold of the call and all
\* three at a lower threshold
HigherThresholdRefinesWitness ==
    /\ pc = "collect"
    /\ InUnitInterval(options.similarityThreshold)
    /\ Len(clusters) = 2
    /\ \E k \in 1..2 : Len(clusters[k]) = 2
    /\ \E t1 \in LowerThresholds : Len(ClustersAt(t1)) = 1

\* ------------------------------------------------------------------------
\* Specification SpecUi: the state of the grouping UI under calls of
\* applyKeywordGrouping, clearKeywordGrouping and filterGroupsByIntent. The
\* handlers run to completion one after the other (applyKeywordGrouping is
\* async but awaits nothing); the call of groupKeywords inside
\* applyKeywordGrouping takes the steps of Spec. What the handlers write to
\* the document is not part of the state.
\* ------------------------------------------------------------------------
\* most rows of the table read by getCurrentKeywordData
MaxUiRecords == 2

\* getCurrentKeywordData: the rows of the table, clicks read by parseInt
UiKeywordData == SeqsUpTo({r \in KeywordRecords : r.clicks = 0}, MaxUiRecords)

\* getGroupingOptions: the value of the slider read by parseFloat (0.5 by
\* default, not checked against a range), the minimum size (2 by default),
\* maxGroups 20, the checkbox
UiOptions ==
    [similarityThreshold : {<<-1, 1>>, <<3, 10>>, <<1, 2>>}, minGroupSize : {2},
     maxGroups : {20}, groupByIntent : BOOLEAN]

\* the object groupKeywords returns, with the records of the table in the
\* place of their positions
WithRecords(data, res) ==
    [res EXCEPT
        !.groups = [k \in 1..Len(res.groups) |->
                      [res.groups[k] EXCEPT
                          !.keywords = [i \in 1..Len(res.groups[k].keywords) |->
                                           data[res.groups[k].keywords[i]]]]],
        !.ungrouped = [i \in 1..Len(res.ungrouped) |-> data[res.ungrouped[i]]]]

\* the argument of filterGroupsByIntent: the data-intent of a filter pill
UiIntents == {"all", "informational", "commercial"}

UiInit ==
    /\ currentGroupingResult = null
    /\ groupingEnabled = FALSE
    /\ currentGroupFilters = [intent |-> null, minClicks |-> null, minSize |-> null,
                              searchTerm |-> null]
    /\ SimIdle
    /\ GroupIdle
    /\ IntentIdle
    /\ TopicIdle
    /\ MetricIdle

\* the call of groupKeywords is over: its variables are gone
CallEnds ==
    /\ keywordData' = <<>>
    /\ options' = [similarityThreshold |-> <<1, 2>>, minGroupSize |-> 2,
                   maxGroups |-> 20, groupByIntent |-> TRUE]
    /\ pc' = "idle"
    /\ keywordsByIntent' = <<>>
    /\ bucketIdx' = 0
    /\ similarities' = <<>>
    /\ clusters' = <<>>
    /\ maxSimilarity' = <<-1, 1>>
    /\ mergeIndices' = <<-1, -1>>
    /\ finalGroups' = <<>>
    /\ ungrouped' = <<>>
    /\ result' = NoValue

\* a variant of ApplyKeywordGrouping that sets the flag before the call of
\* groupKeywords
ApplyKeywordGroupingFlagFirst ==
    /\ pc = "idle"
    /\ \E data \in UiKeywordData, opts \in UiOptions :
          IF Len(data) = 0
          THEN UNCHANGED <<groupVars, groupingEnabled>>
          ELSE /\ keywordData' = data
               /\ options' = opts
               /\ pc' = "entry"
               /\ groupingEnabled' = TRUE
               /\ UNCHANGED <<keywordsByIntent, bucketIdx, similarities, clusters,
                              maxSimilarity, mergeIndices, finalGroups, ungrouped, result>>
    /\ UNCHANGED <<currentGroupingResult, currentGroupFilters>>
    /\ UNCHANGED <<simVars, unitVars>>

\* applyKeywordGrouping up to the call of groupKeywords at line 683: it
\* returns at 673 when the table has no rows
ApplyKeywordGrouping ==
    /\ pc = "idle"
    /\ \E data \in UiKeywordData, opts \in UiOptions :
          IF Len(data) = 0
          THEN UNCHANGED <<groupVars, groupingEnabled>>
          ELSE /\ keywordData' = data
               /\ options' = opts
               /\ pc' = "entry"
               /\ groupingEnabled' = groupingEnabled
               /\ UNCHANGED <<keywordsByIntent, bucketIdx, similarities, clusters,
                              maxSimilarity, mergeIndices, finalGroups, ungrouped, result>>
    /\ UNCHANGED <<currentGroupingResult, currentGroupFilters>>
    /\ UNCHANGED <<simVars, unitVars>>

\* lines 683-684: groupKeywords has returned, the result and the flag are set
StoreGroupingResult ==
    /\ pc = "done"
    /\ currentGroupingResult' = WithRecords(keywordData, result)
    /\ groupingEnabled' = TRUE
    /\ CallEnds
    /\ UNCHANGED currentGroupFilters
    /\ UNCHANGED <<simVars, unitVars>>

\* line 703: groupKeywords has thrown, the catch block writes the status only
CatchGroupingError ==
    /\ pc = "threw"
    /\ CallEnds
    /\ UNCHANGED uiVars
    /\ UNCHANGED <<simVars, unitVars>>

\* clearKeywordGrouping, lines 713-715
ClearKeywordGrouping ==
    /\ pc = "idle"
    /\ currentGroupingResult' = null
    /\ groupingEnabled' = FALSE
    /\ currentGroupFilters' = [intent |-> null, minClicks |-> null, minSize |-> null,
                               searchTerm |-> null]
    /\ UNCHANGED <<simVars, groupVars, unitVars>>

\* filterGroupsByIntent, lines 1080-1082; the filtered copy (1084-1090) is
\* only rendered
FilterGroupsByIntent ==
    /\ pc = "idle"
    /\ \E intent \in UiIntents :
          IF currentGroupingResult = null
          THEN UNCHANGED uiVars
          ELSE /\ currentGroupFilters' =
                     [currentGroupFilters EXCEPT
                         !.intent = IF intent = "all" THEN null ELSE <<intent>>]
               /\ UNCHANGED <<currentGroupingResult, groupingEnabled>>
    /\ UNCHANGED <<simVars, groupVars, unitVars>>

UiNext ==
    \/ ApplyKeywordGrouping
    \/ Enter
    \/ SkipSmallBucket
    \/ StartClustering
    \/ ScanClusters
    \/ StopMerging
    \/ MergeRound
    \/ MergeThrows
    \/ CollectClusters
    \/ CollectThrows
    \/ Finish
    \/ StoreGroupingResult
    \/ CatchGroupingError
    \/ ClearKeywordGrouping
    \/ FilterGroupsByIntent

SpecUi == UiInit /\ [][UiNext]_vars

\* ------------------------------------------------------------------------
\* Properties of the UI state (SpecUi)
\* ------------------------------------------------------------------------
\* C30: after any sequence of applyKeywordGrouping, clearKeywordGrouping and
\* filterGroupsByIntent calls, groupingEnabled is true if and only if
\* currentGroupingResult is not null; clearKeywordGrouping leaves the result
\* null, the flag false and every filter null; filterGroupsByIntent changes
\* nothing but the intent filter, and nothing at all when no result is stored.
UiStateConsistent ==
    /\ [](groupingEnabled <=> currentGroupingResult # null)
    /\ [][ClearKeywordGrouping =>
            /\ currentGroupingResult' = null
            /\ groupingEnabled' = FALSE
            /\ \A f \in DOMAIN currentGroupFilters' : currentGroupFilters'[f] = null]_vars
    /\ [][FilterGroupsByIntent =>
            /\ currentGroupingResult' = currentGroupingResult
            /\ groupingEnabled' = groupingEnabled
            /\ \A f \in DOMAIN currentGroupFilters \ {"intent"} :
                  currentGroupFilters'[f] = currentGroupFilters[f]
            /\ currentGroupingResult = null => currentGroupFilters' = currentGroupFilters]_vars

\* a result with a group is stored and shown through the commercial filter
UiStateConsistentWitness ==
    /\ groupingEnabled
    /\ currentGroupingResult # null
    /\ Len(currentGroupingResult.groups) >= 1
    /\ currentGroupFilters.intent = <<"commercial">>

====
